---- MODULE Spec2Model ----
(***************************************************************************)
(* Model of the render-object / pipeline registry of webgpu-quickdraw      *)
(* (class Renderer) together with the Mat4 helpers it calls.               *)
(*                                                                         *)
(* GPU resources (textures and buffers) are entries of the table gpu; a    *)
(* resource handle is its index in that table.  A uniform buffer is a      *)
(* sequence of 64-byte cells (one cell = one mat4 of 32-bit floats), which *)
(* is the granularity of every offset the renderer computes.  JavaScript   *)
(* `undefined` is the empty sequence for optional arrays and optional      *)
(* scalars (<<v>> is a supplied value v), and Undef for handle numbers.    *)
(***************************************************************************)
EXTENDS Integers, Sequences, FiniteSets, TLC

VARIABLES
  limits,       \* device.limits: the two offset alignments, in bytes
  width,        \* #width
  height,       \* #height
  msaa,         \* #msaa    (handle of the multisample colour target)
  zbuffer,      \* #zbuffer (handle of the depth buffer)
  textures,     \* this.textures  (sequence of texture handles)
  pipelines,    \* this.pipelines (sequence of RenderPipeline records)
  clearColor,   \* this.clearColor, channels in 1/255 units
  gpu,          \* every texture / buffer the device was asked to create
  deviceLost,   \* TRUE once #device.destroy() has run
  pending,      \* async calls suspended at an await, in the order they began
  last          \* the most recent call: arguments, outcome, GPU commands

vars == <<limits, width, height, msaa, zbuffer, textures, pipelines,
          clearColor, gpu, deviceLost, pending, last>>

----------------------------------------------------------------------------
(* Bounds of the model *)

MaxPipelines == 2
MaxObjects   == 3
MaxTextures  == 1
MaxGpu       == 14
MaxPending   == 2

(* Program constants *)

MatBytes == 64
MvpCells == 3
Undef    == -1

(* Input domains *)

DefaultAlign == 256
AlignValues  == {64, 256}
InitDim     == <<512, 512>>
Dims        == {<<680, 680>>, <<680, 512>>}
ObjCounts   == {1, 2}
NoHandle    == 0

----------------------------------------------------------------------------
(* Generic helpers *)

\* JS `x || d` on an optional array component: t?.[i] || d
OrElse(t, i, d) == IF i <= Len(t) /\ t[i] # 0 THEN t[i] ELSE d

\* JS array read a[i] with a 0-based index; <<>> stands for undefined
At(a, i) == IF i >= 0 /\ i < Len(a) THEN <<a[i + 1]>> ELSE <<>>

\* number of 64-byte cells a buffer of `bytes` bytes occupies
Cells(bytes) == (bytes + MatBytes - 1) \div MatBytes

ZeroCell == [k |-> "zero"]

----------------------------------------------------------------------------
(* Mat4 *)

Mat4identity ==
  << 1, 0, 0, 0,
     0, 1, 0, 0,
     0, 0, 1, 0,
     0, 0, 0, 1 >>

Mat4translate(x, y, z) ==
  << 1, 0, 0, 0,
     0, 1, 0, 0,
     0, 0, 1, 0,
     x, y, z, 1 >>

Mat4scale(x, y, z) ==
  << x, 0, 0, 0,
     0, y, 0, 0,
     0, 0, z, 0,
     0, 0, 0, 1 >>

\* rotate(axis, rad) for a unit axis; c and s are cos(rad) and sin(rad)
Mat4rotate(axis, c, s) ==
  LET x == axis[1]
      y == axis[2]
      z == axis[3]
      xx == x * x
      yy == y * y
      zz == z * z
      o == 1 - c
  IN << xx + (1 - xx) * c, x * y * o + z * s, x * z * o - y * s, 0,
        x * y * o - z * s, yy + (1 - yy) * c, y * z * o + x * s, 0,
        x * z * o + y * s, y * z * o - x * s, zz + (1 - zz) * c, 0,
        0, 0, 0, 1 >>

\* the product with the second factor read by rows
Mat4multiplyByRows(a0, b0) ==
  CHOOSE dst \in
    { [n \in 1..16 |->
         LET i == (n - 1) % 4
             j == (n - 1) \div 4
         IN a[i + 1]  * b[j + 1] + a[4 + i + 1]  * b[4 + j + 1]
          + a[8 + i + 1] * b[8 + j + 1] + a[12 + i + 1] * b[12 + j + 1]] :
      a \in {a0}, b \in {b0} } : TRUE

\* dst[4*j + i] = sum over k of a[4*k + i] * b[4*j + k]   (0-based)
Mat4multiply(a0, b0) ==
  CHOOSE dst \in
    { [n \in 1..16 |->
         LET i == (n - 1) % 4
             j == (n - 1) \div 4
         IN a[i + 1]  * b[4 * j + 1] + a[4 + i + 1]  * b[4 * j + 2]
          + a[8 + i + 1] * b[4 * j + 3] + a[12 + i + 1] * b[4 * j + 4]] :
      a \in {a0}, b \in {b0} } : TRUE

\* the projection matrices are kept as the call that builds them
Mat4ortho(left, right, top, bottom, near, far) ==
  [k |-> "ortho", left |-> left, right |-> right, top |-> top,
   bottom |-> bottom,
   near |-> IF near = <<>> THEN 0 ELSE near[1],
   far |-> IF far = <<>> THEN 2000 ELSE far[1]]

Mat4perspective(fovY, aspectNum, aspectDen, zNear, zFar) ==
  [k |-> "persp", fovY |-> fovY, aspect |-> <<aspectNum, aspectDen>>,
   near |-> zNear, far |-> zFar]

----------------------------------------------------------------------------
(* Cameras: the values makeCamera returns with default options *)

NoCamera == [type |-> "none"]

MakeCamera(type) ==
  IF type = "ortho"
  THEN [type |-> "ortho", near |-> 0, far |-> 1000,
        translate |-> <<0, 0, 10>>, lookAt |-> <<0, 0, 0>>, up |-> <<0, 1, 0>>]
  ELSE [type |-> "persp", fovY |-> 60, near |-> 1, far |-> 1000,
        translate |-> <<0, 0, 10>>, lookAt |-> <<0, 0, 0>>, up |-> <<0, 1, 0>>]

Cameras == {NoCamera, MakeCamera("ortho"), MakeCamera("persp")}

----------------------------------------------------------------------------
(* The GPU device: resource creation, destruction and queue writes *)

NewTexture(label, w, h) ==
  [kind |-> "texture", label |-> label, w |-> w, h |-> h,
   destroyed |-> FALSE, lost |-> deviceLost]

\* the two render targets Renderer.init creates before the constructor runs
NewTargetTexture(label, w, h) ==
  [kind |-> "texture", label |-> label, w |-> w, h |-> h,
   destroyed |-> FALSE, lost |-> FALSE]

NewBuffer(label, bytes) ==
  [kind |-> "buffer", label |-> label, size |-> bytes,
   destroyed |-> FALSE, lost |-> deviceLost,
   data |-> [c \in 1..Cells(bytes) |-> ZeroCell]]

\* g.destroy() for every handle of the set hs
DestroyAll(g, hs) ==
  [h \in DOMAIN g |-> IF h \in hs THEN [g[h] EXCEPT !.destroyed = TRUE] ELSE g[h]]

\* queue.writeBuffer(buffer, offset, data): `cells` lands at byte `offset`;
\* a write to a destroyed buffer, on a lost device or past the end of the
\* buffer is a validation error and writes nothing
WriteOk(g, buf, offset, bytes) ==
  /\ ~g[buf].destroyed
  /\ ~g[buf].lost
  /\ ~deviceLost
  /\ offset + bytes <= g[buf].size

WriteBuffer(g, buf, offset, bytes, cells) ==
  IF WriteOk(g, buf, offset, bytes)
  THEN [g EXCEPT ![buf].data =
          [c \in DOMAIN g[buf].data |->
             LET first == offset \div MatBytes
             IN IF c - 1 >= first /\ c - 1 < first + Len(cells)
                THEN cells[c - first]
                ELSE g[buf].data[c]]]
  ELSE g

\* the record of one writeBuffer call
WriteCall(buf, offset, bytes, cells) ==
  [buffer |-> buf, offset |-> offset, bytes |-> bytes, data |-> cells]

RECURSIVE ApplyWrites(_, _)
ApplyWrites(g, ws) ==
  IF ws = <<>> THEN g
  ELSE CHOOSE out \in
         { ApplyWrites(g1, Tail(ws)) :
             g1 \in {WriteBuffer(g, ws[1].buffer, ws[1].offset, ws[1].bytes, ws[1].data)} } :
         TRUE

----------------------------------------------------------------------------
(* The record of a call *)

Call(op, args, err, ret) ==
  [op |-> op, args |-> args, err |-> err, ret |-> ret,
   writes |-> <<>>, passes |-> <<>>, warns |-> <<>>, destroys |-> <<>>]

NoArgs == [none |-> TRUE]

----------------------------------------------------------------------------
(* Renderer.init + constructor *)

Init ==
  /\ limits = [minUniformBufferOffsetAlignment |-> DefaultAlign,
                minStorageBufferOffsetAlignment |-> DefaultAlign]
  /\ width = InitDim[1]
  /\ height = InitDim[2]
  /\ gpu = << NewTargetTexture("msaa", InitDim[1], InitDim[2]),
              NewTargetTexture("zbuffer", InitDim[1], InitDim[2]) >>
  /\ msaa = 1
  /\ zbuffer = 2
  /\ textures = <<>>
  /\ pipelines = <<>>
  /\ clearColor = [r |-> 0, g |-> 0, b |-> 0, a |-> 255]
  /\ deviceLost = FALSE
  /\ pending = <<>>
  /\ last = Call("init", NoArgs, "", Undef)

\* the state after construction, with `first` as the call on record
InitHaving(first) ==
  /\ limits = [minUniformBufferOffsetAlignment |-> DefaultAlign,
                minStorageBufferOffsetAlignment |-> DefaultAlign]
  /\ width = InitDim[1]
  /\ height = InitDim[2]
  /\ gpu = << NewTargetTexture("msaa", InitDim[1], InitDim[2]),
              NewTargetTexture("zbuffer", InitDim[1], InitDim[2]) >>
  /\ msaa = 1
  /\ zbuffer = 2
  /\ textures = <<>>
  /\ pipelines = <<>>
  /\ clearColor = [r |-> 0, g |-> 0, b |-> 0, a |-> 255]
  /\ deviceLost = FALSE
  /\ pending = <<>>
  /\ last = first

----------------------------------------------------------------------------
(* addTexture(width, height) without an image url: no await is reached *)

AddTexture(dim) ==
  /\ Len(textures) < MaxTextures
  /\ Len(gpu) < MaxGpu
  /\ LET id == Len(textures)
         texture == Len(gpu) + 1
     IN /\ gpu' = Append(gpu, NewTexture("texture-cache", dim[1], dim[2]))
        /\ textures' = Append(textures, texture)
        /\ last' = Call("addTexture", [width |-> dim[1], height |-> dim[2]], "", id)
  /\ UNCHANGED <<limits, width, height, msaa, zbuffer, pipelines, clearColor, deviceLost,
                 pending>>

\* queue.copyExternalImageToTexture into `texture`: on a destroyed texture
\* or a lost device it is a validation error and copies nothing
CopyImage(g, texture) ==
  [texture |-> texture,
   dropped |-> g[texture].destroyed \/ g[texture].lost \/ deviceLost]

WithoutCall(calls, i) == SubSeq(calls, 1, i - 1) \o SubSeq(calls, i + 1, Len(calls))

\* addTexture(width, height, url) up to `await fetch(url)`: the id is read
\* and the texture created, the call waits for the image
AddTextureBegin(dim) ==
  /\ Len(pending) < MaxPending
  /\ Len(textures) + Len(pending) < MaxTextures + MaxPending
  /\ Len(gpu) < MaxGpu
  /\ gpu' = Append(gpu, NewTexture("texture-cache", dim[1], dim[2]))
  /\ pending' = Append(pending, [op |-> "addTexture", id |-> Len(textures),
                                 texture |-> Len(gpu) + 1,
                                 width |-> dim[1], height |-> dim[2]])
  /\ UNCHANGED <<limits, width, height, msaa, zbuffer, textures, pipelines,
                 clearColor, deviceLost, last>>

\* the same call once the bitmap is decoded: copy, push, return id
AddTextureResume(i) ==
  /\ pending[i].op = "addTexture"
  /\ textures' = Append(textures, pending[i].texture)
  /\ pending' = WithoutCall(pending, i)
  /\ last' = [Call("addTexture",
                   [width |-> pending[i].width, height |-> pending[i].height],
                   "", pending[i].id)
              EXCEPT !.writes = <<CopyImage(gpu, pending[i].texture)>>]
  /\ UNCHANGED <<limits, width, height, msaa, zbuffer, pipelines, clearColor,
                 gpu, deviceLost>>

\* updateTexture(textureId, url) up to `await fetch(url)`
UpdateTextureBegin(textureId) ==
  /\ Len(pending) < MaxPending
  /\ LET texture == At(textures, textureId)
     IN  IF texture = <<>>
         THEN /\ last' = Call("updateTexture", [textureId |-> textureId],
                              "Could not find texture", Undef)
              /\ pending' = pending
         ELSE /\ last' = last
              /\ pending' = Append(pending, [op |-> "updateTexture",
                                             id |-> textureId,
                                             texture |-> texture[1]])
  /\ UNCHANGED <<limits, width, height, msaa, zbuffer, textures, pipelines,
                 clearColor, gpu, deviceLost>>

\* the same call once the bitmap is decoded: copy into the texture it read
UpdateTextureResume(i) ==
  /\ pending[i].op = "updateTexture"
  /\ pending' = WithoutCall(pending, i)
  /\ last' = [Call("updateTexture", [textureId |-> pending[i].id], "", Undef)
              EXCEPT !.writes = <<CopyImage(gpu, pending[i].texture)>>]
  /\ UNCHANGED <<limits, width, height, msaa, zbuffer, textures, pipelines,
                 clearColor, gpu, deviceLost>>

----------------------------------------------------------------------------
(* addPipeline, addBindGroup0, addBindGroup1 *)

\* sizeInBytes of a custom uniform, from its type
UniformSize(uniform) ==
  CASE uniform.type \in {"f32", "i32"} -> 4
    [] uniform.type = "vec2f" -> 8
    [] uniform.type = "vec3f" -> 12
    [] uniform.type = "vec4f" -> 16
    [] OTHER -> uniform.sizeInBytes

\* returns the device table after the creations and the RenderBindGroup
AddBindGroup0(g, maxObjCount, texture1, texture2) ==
  LET minStrideSize == limits.minUniformBufferOffsetAlignment
      g1 == Append(g, NewBuffer("mvp-struct-uniform", minStrideSize * maxObjCount))
      mvpBuffer == Len(g1)
      g2 == IF texture1 = NoHandle
            THEN Append(g1, NewTexture("texture-cache-placeholder", 1, 1))
            ELSE g1
      tx1 == IF texture1 = NoHandle THEN Len(g2) ELSE texture1
      g3 == IF texture2 = NoHandle
            THEN Append(g2, NewTexture("texture-cache-placeholder", 1, 1))
            ELSE g2
      tx2 == IF texture2 = NoHandle THEN Len(g3) ELSE texture2
  IN [gpu |-> g3,
      out |-> [base |-> [buffer |-> mvpBuffer, size |-> MatBytes * MvpCells,
                         texture1 |-> tx1, texture2 |-> tx2],
               entries |-> <<mvpBuffer>>]]

RECURSIVE AddBindGroup1Loop(_, _, _, _, _)
AddBindGroup1Loop(g, maxObjCount, uniforms, i, acc) ==
  IF i > Len(uniforms) THEN [gpu |-> g, out |-> acc]
  ELSE LET uniform == uniforms[i]
           minStrideSize == limits.minUniformBufferOffsetAlignment
           sizeInBytes == UniformSize(uniform)
           size == IF uniform.dynamic THEN minStrideSize * maxObjCount ELSE sizeInBytes
           g1 == Append(g, NewBuffer("custom-uniform", size))
           entry == Len(g1)
           desc == [binding |-> i - 1, buffer |-> entry, size |-> sizeInBytes]
       IN AddBindGroup1Loop(g1, maxObjCount, uniforms, i + 1,
            [base |-> Append(acc.base, desc),
             entries |-> Append(acc.entries, entry),
             dynRef |-> Append(acc.dynRef, uniform.dynamic),
             defined |-> TRUE])

NoBindGroup == [base |-> <<>>, entries |-> <<>>, dynRef |-> <<>>, defined |-> FALSE]

AddBindGroup1(g, maxObjCount, uniforms) ==
  AddBindGroup1Loop(g, maxObjCount, uniforms, 1,
                    [base |-> <<>>, entries |-> <<>>, dynRef |-> <<>>, defined |-> TRUE])

\* this.textures[id] for an optional id; NoHandle when there is none
TextureAt(id) == IF At(textures, id) = <<>> THEN NoHandle ELSE At(textures, id)[1]

\* number of resources addPipeline creates
PipelineCost(options) ==
  1 + (IF TextureAt(options.texture1Id) = NoHandle THEN 1 ELSE 0)
    + (IF TextureAt(options.texture2Id) = NoHandle THEN 1 ELSE 0)
    + Len(options.uniforms)

AddPipeline(maxObjCount, options) ==
  /\ Len(pipelines) < MaxPipelines
  /\ Len(gpu) + PipelineCost(options) <= MaxGpu
  /\ LET tx1 == TextureAt(options.texture1Id)
         tx2 == TextureAt(options.texture2Id)
         bg0 == AddBindGroup0(gpu, maxObjCount, tx1, tx2)
         bg1 == IF options.uniforms # <<>>
                THEN AddBindGroup1(bg0.gpu, maxObjCount, options.uniforms)
                ELSE [gpu |-> bg0.gpu, out |-> NoBindGroup]
         pipe == [pipe |-> [layout1 |-> [i \in DOMAIN options.uniforms |->
                                           [binding |-> options.uniforms[i].bindSlot,
                                            dynamic |-> options.uniforms[i].dynamic]]],
                  objects |-> <<>>,
                  maxObjCount |-> maxObjCount,
                  bindGroup0 |-> bg0.out,
                  bindGroup1 |-> bg1.out]
     IN /\ gpu' = bg1.gpu
        /\ pipelines' = Append(pipelines, pipe)
        /\ last' = Call("addPipeline",
                        [maxObjCount |-> maxObjCount,
                         texture1Id |-> options.texture1Id,
                         texture2Id |-> options.texture2Id,
                         texture1 |-> tx1, texture2 |-> tx2],
                        "", Len(pipelines))
  /\ UNCHANGED <<limits, width, height, msaa, zbuffer, textures, clearColor, deviceLost,
                 pending>>


----------------------------------------------------------------------------
(* updateObject *)

\* Math.cos / Math.sin of rotateDeg * PI / 180, for the angles that are exact
CosDeg(d) == CASE d = 0 -> 1
SinDeg(d) == CASE d = 0 -> 0

\* the 48 floats updateObject assembles, as three mat4 cells, for a canvas
\* of w by h pixels (both even, so that w/2 and h/2 are integers)
MvpDataFor(input, w, h) ==
  LET translate == input.translate
      scale == input.scale
      camera == input.camera
      deg == OrElse(input.rotateDeg, 1, 0)
      modelt == Mat4translate(OrElse(translate, 1, 0), OrElse(translate, 2, 0),
                              OrElse(translate, 3, 0))
      modelr == Mat4rotate(IF input.rotateAxis = <<>> THEN <<0, 0, 1>> ELSE input.rotateAxis,
                           CosDeg(deg), SinDeg(deg))
      models == Mat4scale(OrElse(scale, 1, 1), OrElse(scale, 2, 1), OrElse(scale, 3, 1))
      model == Mat4multiply(modelt, Mat4multiply(models, modelr))
      view == IF camera.type = "none"
              THEN [k |-> "mat", m |-> Mat4identity]
              ELSE [k |-> "view",
                    viewt |-> Mat4translate(-camera.translate[1], -camera.translate[2],
                                            -camera.translate[3]),
                    pos |-> camera.translate, lookAt |-> camera.lookAt, up |-> camera.up]
      w2 == w \div 2
      h2 == h \div 2
      proj == IF camera.type = "persp"
              THEN Mat4perspective(camera.fovY, w2, h2, camera.near, camera.far)
              ELSE Mat4ortho(-w2, w2, h2, -h2,
                             IF camera.type = "none" THEN <<>> ELSE <<camera.near>>,
                             IF camera.type = "none" THEN <<>> ELSE <<camera.far>>)
  IN << [k |-> "mat", m |-> model], view, proj >>

MvpDataStale(input) == MvpDataFor(input, InitDim[1], InitDim[2])

\* keeps the view and projection the slot of the object already holds when
\* the call carries no camera
MvpDataRetained(input) ==
  LET fresh == MvpDataFor(input, width, height)
      dpipe == At(pipelines, input.pipelineId)
      obj == IF dpipe = <<>> THEN <<>> ELSE At(dpipe[1].objects, input.objectId)
      data == gpu[dpipe[1].bindGroup0.entries[1]].data
      first == (limits.minStorageBufferOffsetAlignment * obj[1].pipelineIndex) \div MatBytes
  IN IF input.camera.type = "none" /\ obj # <<>> /\ first + MvpCells <= Len(data)
     THEN IF data[first + 3].k = "persp"
          THEN << fresh[1], data[first + 2], data[first + 3] >>
          ELSE fresh
     ELSE fresh

\* w2 = this.#width/2, h2 = this.#height/2
MvpData(input) == MvpDataFor(input, width, height)

\* byte offset updateObject writes an object's per-object data at
WriteOffset(obj) == limits.minStorageBufferOffsetAlignment * obj.pipelineIndex

\* the writeBuffer calls for the custom uniforms of bind group 1
RECURSIVE CustomWrites(_, _, _, _)
CustomWrites(dpipe, obj, uniformData, i) ==
  IF i > Len(dpipe.bindGroup1.entries) THEN <<>>
  ELSE LET rest == CustomWrites(dpipe, obj, uniformData, i + 1)
           buffer == dpipe.bindGroup1.entries[i]
       IN IF i > Len(uniformData) \/ uniformData[i] = 0
          THEN rest
          ELSE <<WriteCall(buffer,
                           IF dpipe.bindGroup1.dynRef[i] THEN WriteOffset(obj) ELSE 0,
                           dpipe.bindGroup1.base[i].size,
                           <<[k |-> "data", v |-> uniformData[i]]>>)>> \o rest

ReturnsEarlyNever(visible) == FALSE

\* if (!obj.visible) return;
ReturnsEarly(visible) == ~visible

FindObjectOrLast(dpipe, objectId) ==
  IF At(dpipe.objects, objectId) = <<>> /\ dpipe.objects # <<>>
  THEN <<dpipe.objects[Len(dpipe.objects)]>>
  ELSE At(dpipe.objects, objectId)

\* const obj = dpipe.objects[objectId]
FindObject(dpipe, objectId) == At(dpipe.objects, objectId)

\* a flag that an update without the field leaves as it is
NewVisibleSticky(visible, obj) ==
  IF visible = <<>> THEN obj.visible ELSE visible[1]

\* obj.visible = visible ?? true
NewVisible(visible, obj) ==
  IF visible = <<>> THEN TRUE ELSE visible[1]

\* the effect of updateObject(input) on the pipeline list pls and the device
\* table g: the error thrown (if any), the new values, the writes issued
UpdateObjectEffect(g, pls, input) ==
  LET dpipe == At(pls, input.pipelineId)
      unchanged == [pipelines |-> pls, gpu |-> g, writes |-> <<>>]
  IN IF dpipe = <<>>
     THEN [err |-> "Could not find pipeline"] @@ unchanged
     ELSE LET obj == FindObject(dpipe[1], input.objectId)
          IN IF obj = <<>>
             THEN [err |-> "Could not find object"] @@ unchanged
             ELSE LET visible == NewVisible(input.visible, obj[1])
                      pls1 == [pls EXCEPT ![input.pipelineId + 1].objects[input.objectId + 1].visible = visible]
                      mvpWrite == WriteCall(dpipe[1].bindGroup0.entries[1], WriteOffset(obj[1]),
                                            MatBytes * MvpCells, MvpData(input))
                      writes == <<mvpWrite>> \o
                                (IF dpipe[1].bindGroup1.defined /\ input.uniformData # <<>>
                                 THEN CustomWrites(dpipe[1], obj[1], input.uniformData, 1)
                                 ELSE <<>>)
                  IN IF ReturnsEarly(visible)
                     THEN [err |-> "", pipelines |-> pls1, gpu |-> g, writes |-> <<>>]
                     ELSE CHOOSE eff \in
                            { [err |-> "", pipelines |-> pls1, gpu |-> ApplyWrites(g, ws),
                               writes |-> ws] : ws \in {writes} } : TRUE

\* obj.visible as the call finds it (TRUE when it finds no object)
WasVisible(pls, input) ==
  LET dpipe == At(pls, input.pipelineId)
      obj == IF dpipe = <<>> THEN <<>> ELSE At(dpipe[1].objects, input.objectId)
  IN  obj = <<>> \/ obj[1].visible

UpdateObject(input) ==
  /\ \E eff \in {UpdateObjectEffect(gpu, pipelines, input)} :
        /\ pipelines' = eff.pipelines
        /\ gpu' = eff.gpu
        /\ last' = [Call("updateObject",
                         [pipelineId |-> input.pipelineId, objectId |-> input.objectId,
                          visible |-> input.visible, translate |-> input.translate,
                          camera |-> input.camera.type,
                          uniformData |-> input.uniformData,
                          wasVisible |-> WasVisible(pipelines, input)],
                         eff.err, Undef)
                    EXCEPT !.writes = eff.writes]
  /\ UNCHANGED <<limits, width, height, msaa, zbuffer, textures, clearColor, deviceLost,
                 pending>>

\* updateObject({ pipelineId, objectId }): every optional field undefined
DefaultInput(pipelineId, objectId) ==
  [pipelineId |-> pipelineId, objectId |-> objectId, translate |-> <<>>,
   rotateAxis |-> <<>>, rotateDeg |-> <<>>, scale |-> <<>>, visible |-> <<>>,
   camera |-> NoCamera, uniformData |-> <<>>]

----------------------------------------------------------------------------
(* addObject and addObjectAsBuffers *)

\* a vertex / uv / normal / index buffer holding what writeBuffer put in it
FilledBuffer(label, bytes, content) ==
  [NewBuffer(label, bytes) EXCEPT !.data =
     IF deviceLost THEN @ ELSE <<[k |-> label, n |-> content]>>]

\* the buffers of one object, appended to the device table in creation order
ObjectBuffers(g, vbytes, uvbytes, nbytes, ibytes, vcount, icount) ==
  LET g3 == g \o << FilledBuffer("vertex-buffer", vbytes, vcount),
                    FilledBuffer("uv-buffer", uvbytes, vcount),
                    FilledBuffer("normal-buffer", nbytes, vcount) >>
  IN IF ibytes > 0
     THEN Append(g3, FilledBuffer("index-buffer", ibytes, icount))
     ELSE g3

NextObjectIdOneBased(pipe) == Len(pipe.objects) + 1

\* const id = pipe.objects.length
NextObjectId(pipe) == Len(pipe.objects)

\* "save to cache": push the object, then updateObject({pipelineId, objectId:id})
SaveObject(g0, g, pipelineId, vertexCount, hasIndex, indexCount, indexType, instances) ==
  LET pipe == At(pipelines, pipelineId)
  IN IF pipe = <<>>
     THEN [err |-> "TypeError", ret |-> Undef, pipelines |-> pipelines, gpu |-> g,
           writes |-> <<>>]
     ELSE LET id == NextObjectId(pipe[1])
              obj == [visible |-> TRUE,
                      vertexBuffer |-> Len(g0) + 1,
                      uvBuffer |-> Len(g0) + 2,
                      normalBuffer |-> Len(g0) + 3,
                      vertexCount |-> vertexCount,
                      pipelineIndex |-> id,
                      indexBuffer |-> IF hasIndex THEN Len(g0) + 4 ELSE NoHandle,
                      indexCount |-> indexCount,
                      indexType |-> indexType,
                      instances |-> IF instances = <<>> \/ instances[1] = 0
                                    THEN 1 ELSE instances[1]]
          IN CHOOSE out \in
               { [err |-> eff.err, ret |-> IF eff.err = "" THEN id ELSE Undef,
                  pipelines |-> eff.pipelines, gpu |-> eff.gpu, writes |-> eff.writes] :
                 eff \in { UpdateObjectEffect(g, pls1, DefaultInput(pipelineId, id)) :
                           pls1 \in {[pipelines EXCEPT ![pipelineId + 1].objects =
                                        Append(@, obj)]} } } : TRUE

\* the pipeline an add call targets has room in the model, or does not exist
RoomFor(pipelineId) ==
  IF At(pipelines, pipelineId) = <<>> THEN TRUE
  ELSE Len(pipelines[pipelineId + 1].objects) < MaxObjects

NotEnoughVerticesBelowTwo(vlen) == vlen < 2

\* if (verts.length < 3) throw new Error("Not enough vertices")
NotEnoughVertices(vlen) == vlen < 3

AddObject(pipelineId, vlen, ilen, instances) ==
  /\ RoomFor(pipelineId)
  /\ Len(gpu) + 3 + (IF ilen > 0 THEN 1 ELSE 0) <= MaxGpu
  /\ IF NotEnoughVertices(vlen)
     THEN /\ last' = Call("addObject", [pipelineId |-> pipelineId, vlen |-> vlen],
                          "Not enough vertices", Undef)
          /\ UNCHANGED <<pipelines, gpu>>
     ELSE \E g1 \in {ObjectBuffers(gpu, vlen * 12, vlen * 8, vlen * 12, ilen * 4, vlen, ilen)} :
          \E eff \in {SaveObject(gpu, g1, pipelineId, vlen, ilen > 0,
                                 IF ilen > 0 THEN ilen ELSE Undef, "uint32", instances)} :
             /\ pipelines' = eff.pipelines
             /\ gpu' = eff.gpu
             /\ last' = [Call("addObject", [pipelineId |-> pipelineId, vlen |-> vlen],
                              eff.err, eff.ret)
                         EXCEPT !.writes = eff.writes]
  /\ UNCHANGED <<limits, width, height, msaa, zbuffer, textures, clearColor, deviceLost,
                 pending>>

\* verts is an ArrayBuffer of 12 bytes per vertex; uvs and normals are left
\* out, so each is replaced by new ArrayBuffer(vertCount)
AddObjectAsBuffers(pipelineId, vertCount, ibytes, indexCount, instances) ==
  /\ RoomFor(pipelineId)
  /\ Len(gpu) + 3 + (IF ibytes > 0 THEN 1 ELSE 0) <= MaxGpu
  /\ \E hasIndex \in {ibytes > 0 /\ indexCount # Undef /\ indexCount # 0} :
     \E g1 \in {ObjectBuffers(gpu, vertCount * 12, vertCount, vertCount,
                              IF hasIndex THEN ibytes ELSE 0, vertCount, indexCount)} :
     \E eff \in {SaveObject(gpu, g1, pipelineId, vertCount, hasIndex, indexCount,
                            "uint16", instances)} :
        /\ pipelines' = eff.pipelines
        /\ gpu' = eff.gpu
        /\ last' = [Call("addObjectAsBuffers",
                         [pipelineId |-> pipelineId, vlen |-> vertCount],
                         eff.err, eff.ret)
                    EXCEPT !.writes = eff.writes]
  /\ UNCHANGED <<limits, width, height, msaa, zbuffer, textures, clearColor, deviceLost,
                 pending>>

----------------------------------------------------------------------------
(* render *)

\* byte offset render binds an object's per-object data at
BindOffset(obj) == limits.minUniformBufferOffsetAlignment * obj.pipelineIndex

\* the dynamic offsets of bind group 1: one per dynamic uniform
RECURSIVE DynOffsets(_, _)
DynOffsets(dynRef, obj) ==
  IF dynRef = <<>> THEN <<>>
  ELSE (IF dynRef[1] THEN <<BindOffset(obj)>> ELSE <<>>) \o DynOffsets(Tail(dynRef), obj)

\* the commands recorded for one object
DrawObject(id, pipeline, obj) ==
  [pipeline |-> id,
   slot |-> obj.pipelineIndex,
   vertexBuffers |-> <<obj.vertexBuffer, obj.uvBuffer, obj.normalBuffer>>,
   bindGroup0 |-> pipeline.bindGroup0.base,
   offset0 |-> BindOffset(obj),
   bindGroup1 |-> pipeline.bindGroup1.base,
   offsets1 |-> IF pipeline.bindGroup1.defined
                THEN DynOffsets(pipeline.bindGroup1.dynRef, obj) ELSE <<>>,
   indexBuffer |-> IF obj.indexBuffer # NoHandle /\ obj.indexCount \notin {Undef, 0}
                   THEN obj.indexBuffer ELSE NoHandle,
   call |-> IF obj.indexBuffer # NoHandle /\ obj.indexCount \notin {Undef, 0}
            THEN "drawIndexed" ELSE "draw",
   count |-> IF obj.indexBuffer # NoHandle /\ obj.indexCount \notin {Undef, 0}
             THEN obj.indexCount ELSE obj.vertexCount,
   instances |-> IF obj.instances = 0 THEN 1 ELSE obj.instances]

RECURSIVE DrawObjectsAll(_, _, _)
DrawObjectsAll(id, pipeline, objs) ==
  IF objs = <<>> THEN <<>>
  ELSE <<DrawObject(id, pipeline, objs[1])>> \o DrawObjectsAll(id, pipeline, Tail(objs))

\* pipeline.objects.forEach
RECURSIVE DrawObjects(_, _, _)
DrawObjects(id, pipeline, objs) ==
  IF objs = <<>> THEN <<>>
  ELSE (IF objs[1].visible THEN <<DrawObject(id, pipeline, objs[1])>> ELSE <<>>)
       \o DrawObjects(id, pipeline, Tail(objs))

\* a loop that ends at the first id that is not registered
RECURSIVE DrawPipelinesUntilUnknown(_)
DrawPipelinesUntilUnknown(pipelineIds) ==
  IF pipelineIds = <<>> THEN <<>>
  ELSE LET pipeline == At(pipelines, pipelineIds[1])
       IN IF pipeline = <<>> THEN <<>>
          ELSE DrawObjects(pipelineIds[1], pipeline[1], pipeline[1].objects)
               \o DrawPipelinesUntilUnknown(Tail(pipelineIds))

\* pipelineIds.forEach
RECURSIVE DrawPipelines(_)
DrawPipelines(pipelineIds) ==
  IF pipelineIds = <<>> THEN <<>>
  ELSE LET pipeline == At(pipelines, pipelineIds[1])
       IN (IF pipeline = <<>> THEN <<>>
           ELSE DrawObjects(pipelineIds[1], pipeline[1], pipeline[1].objects))
          \o DrawPipelines(Tail(pipelineIds))

RECURSIVE PipelineWarnings(_)
PipelineWarnings(pipelineIds) ==
  IF pipelineIds = <<>> THEN <<>>
  ELSE (IF At(pipelines, pipelineIds[1]) = <<>> THEN <<pipelineIds[1]>> ELSE <<>>)
       \o PipelineWarnings(Tail(pipelineIds))

\* targetId is <<>> when the argument is left out
Render(pipelineIds, targetId) ==
  /\ LET tx == IF targetId = <<>> THEN <<>> ELSE At(textures, targetId[1])
         pass == [colorView |-> msaa,
                  resolveTarget |-> IF tx = <<>> THEN NoHandle ELSE tx[1],
                  clearValue |-> clearColor,
                  depthView |-> zbuffer,
                  draws |-> DrawPipelines(pipelineIds)]
     IN last' = [Call("render", [pipelineIds |-> pipelineIds, targetId |-> targetId],
                      "", Undef)
                 EXCEPT !.passes = <<pass>>,
                        !.warns = (IF targetId # <<>> /\ tx = <<>>
                                   THEN <<"Could not find render target">> ELSE <<>>)
                                  \o [i \in DOMAIN PipelineWarnings(pipelineIds) |->
                                        "Pipeline not found"]]
  /\ UNCHANGED <<limits, width, height, msaa, zbuffer, textures, pipelines,
                 clearColor, gpu, deviceLost,
                 pending>>

----------------------------------------------------------------------------
(* updateTextureSize, updateClearRGB, updateCanvas *)

UpdateTextureSize(textureId, pipelineId, dim) ==
  /\ Len(gpu) + 3 <= MaxGpu
  /\ LET args == [textureId |-> textureId, pipelineId |-> pipelineId]
         old == At(textures, textureId)
     IN IF old = <<>>
        THEN /\ last' = Call("updateTextureSize", args, "Could not find texture", Undef)
             /\ UNCHANGED <<gpu, textures, pipelines>>
        ELSE LET g1 == Append(DestroyAll(gpu, {old[1]}),
                              NewTexture("texture-cache", dim[1], dim[2]))
                 texture == Len(g1)
                 pipeline == At(pipelines, pipelineId)
             IN /\ textures' = [textures EXCEPT ![textureId + 1] = texture]
                /\ IF pipeline = <<>>
                   THEN /\ gpu' = g1
                        /\ pipelines' = pipelines
                        /\ last' = [Call("updateTextureSize", args,
                                         "Could not find pipeline", Undef)
                                    EXCEPT !.destroys = <<old[1]>>]
                   ELSE LET newGroup == AddBindGroup0(g1, pipeline[1].maxObjCount,
                                                      texture, NoHandle)
                        IN /\ gpu' = newGroup.gpu
                           /\ pipelines' = [pipelines EXCEPT ![pipelineId + 1].bindGroup0 =
                                              newGroup.out]
                           /\ last' = [Call("updateTextureSize", args, "", Undef)
                                       EXCEPT !.destroys = <<old[1]>>]
  /\ UNCHANGED <<limits, width, height, msaa, zbuffer, clearColor, deviceLost,
                 pending>>

\* x ? Math.floor(x)/255 : d, as the numerator over 255
Channel(x, d) == IF x = <<>> \/ x[1] = 0 THEN d ELSE x[1]

UpdateClearRGB(r, g, b, a) ==
  /\ clearColor' = [r |-> Channel(<<r>>, 0), g |-> Channel(<<g>>, 0),
                    b |-> Channel(<<b>>, 0), a |-> Channel(a, 255)]
  /\ last' = Call("updateClearRGB", [r |-> r, g |-> g, b |-> b, a |-> a], "", Undef)
  /\ UNCHANGED <<limits, width, height, msaa, zbuffer, textures, pipelines, gpu, deviceLost,
                 pending>>

UpdateCanvasResetting(w, h) ==
  /\ Len(gpu) + 2 <= MaxGpu
  /\ gpu' = gpu \o << NewTexture("multi-sample-texture", w, h),
                      NewTexture("z-buffer-texture", w, h) >>
  /\ msaa' = Len(gpu) + 1
  /\ zbuffer' = Len(gpu) + 2
  /\ width' = w
  /\ height' = h
  /\ clearColor' = [r |-> 0, g |-> 0, b |-> 0, a |-> 255]
  /\ last' = Call("updateCanvas", [w |-> w, h |-> h], "", Undef)
  /\ UNCHANGED <<limits, textures, pipelines, deviceLost,
                 pending>>

UpdateCanvas(w, h) ==
  /\ Len(gpu) + 2 <= MaxGpu
  /\ gpu' = gpu \o << NewTexture("multi-sample-texture", w, h),
                      NewTexture("z-buffer-texture", w, h) >>
  /\ msaa' = Len(gpu) + 1
  /\ zbuffer' = Len(gpu) + 2
  /\ width' = w
  /\ height' = h
  /\ last' = Call("updateCanvas", [w |-> w, h |-> h], "", Undef)
  /\ UNCHANGED <<limits, textures, pipelines, clearColor, deviceLost,
                 pending>>

----------------------------------------------------------------------------
(* destroy *)

\* handles in the order destroy() visits them
RECURSIVE ObjectHandles(_)
ObjectHandles(objs) ==
  IF objs = <<>> THEN <<>>
  ELSE << objs[1].vertexBuffer, objs[1].uvBuffer, objs[1].normalBuffer >>
       \o (IF objs[1].indexBuffer # NoHandle THEN <<objs[1].indexBuffer>> ELSE <<>>)
       \o ObjectHandles(Tail(objs))

RECURSIVE PipelineHandles(_)
PipelineHandles(pls) ==
  IF pls = <<>> THEN <<>>
  ELSE ObjectHandles(pls[1].objects) \o pls[1].bindGroup0.entries
       \o pls[1].bindGroup1.entries \o PipelineHandles(Tail(pls))

DestroyOrder == <<msaa, zbuffer>> \o textures \o PipelineHandles(pipelines)

Range(f) == {f[i] : i \in DOMAIN f}

\* device.destroy() ends the walk: WebGPU lets an implementation free the
\* allocations of the resources still alive on the device, and does not
\* require it to
Destroy ==
  /\ \E reclaims \in BOOLEAN :
        gpu' = DestroyAll(gpu, IF reclaims THEN DOMAIN gpu ELSE Range(DestroyOrder))
  /\ pipelines' = <<>>
  /\ deviceLost' = TRUE
  /\ last' = [Call("destroy", NoArgs, "", Undef) EXCEPT !.destroys = DestroyOrder]
  /\ UNCHANGED <<limits, width, height, msaa, zbuffer, textures, clearColor,
                 pending>>

----------------------------------------------------------------------------
(* Primitives: the shape generators. A shape is kept as the lengths of its
   vertices, uvs and normals arrays and its index array; the coordinates
   play no part in the lengths or in the index values. *)

MaxSides  == 6
MaxSlices == 4

\* the three class definitions of Primitives in the repository
Newest == "src/primitives.ts:6"
Older  == "src/primitives.ts:462"
Short  == "src/short-webgpu/primitives.ts:6"

RECURSIVE Flatten(_)
Flatten(ss) == IF ss = <<>> THEN <<>> ELSE ss[1] \o Flatten(Tail(ss))

\* the values i takes in for (let i = lo; i < hi; i += step)
ForRange(lo, hi, step) ==
  [k \in 1..(IF hi > lo THEN (hi - lo + step - 1) \div step ELSE 0) |->
     lo + (k - 1) * step]

\* { vertices, uvs, normals } or { vertices, uvs, normals, index }
Shape(vertices, uvs, normals, index) ==
  [err |-> "", vertices |-> vertices, uvs |-> uvs, normals |-> normals, index |-> index]

Thrown(message) ==
  [err |-> message, vertices |-> 0, uvs |-> 0, normals |-> 0, index |-> <<>>]

\* if (sides < 3) throw ...; the other two definitions test sides < 2
MinSides(version) == IF version = Newest THEN 3 ELSE 2

SidesError == "Sides count must be greater than 2"

template == Shape(0, 0, 0, <<>>)

rect == Shape(6, 6, 6, <<>>)

cube == Shape(36, 36, 36, <<>>)

regPolygon(version, sides) ==
  IF sides < MinSides(version) THEN Thrown(SidesError)
  ELSE LET n == Len(ForRange(0, sides, 1))
       IN Shape(3 * n, 3 * n, 3 * n, <<>>)

torus2d(version, sides) ==
  IF sides < MinSides(version) THEN Thrown(SidesError)
  ELSE LET n == Len(ForRange(0, sides, 1))
           vlen == 2 * n
           strip == Flatten([k \in DOMAIN ForRange(0, vlen - 2, 1) |->
                       LET i == ForRange(0, vlen - 2, 1)[k]
                       IN IF i % 2 # 0 THEN <<i, i + 1, i + 2>> ELSE <<i + 1, i, i + 2>>])
       IN Shape(vlen, 2 * n, 2 * n,
                <<strip \o <<vlen - 1, vlen - 2, 0>> \o <<vlen - 1, 0, 1>>>>)

cylinder(version, sides) ==
  IF sides < MinSides(version) THEN Thrown(SidesError)
  ELSE LET caps == 2 + 2 * Len(ForRange(0, sides, 1))
           capIndex == Flatten([k \in DOMAIN ForRange(2, caps - 2, 1) |->
                          LET i == ForRange(2, caps - 2, 1)[k]
                          IN IF i % 2 # 0 THEN <<i, i + 2, 1>> ELSE <<i, 0, i + 2>>])
                       \o <<caps - 2, 0, 2>> \o <<caps - 1, 3, 1>>
           new0 == caps
           vlen == caps + 2 * Len(ForRange(0, sides + 1, 1))
           sideIndex == Flatten([k \in DOMAIN ForRange(new0, vlen - 2, 1) |->
                           LET i == ForRange(new0, vlen - 2, 1)[k]
                           IN IF i % 2 # 0 THEN <<i, i + 1, i + 2>>
                              ELSE <<i + 1, i, i + 2>>])
       IN Shape(vlen, vlen, vlen, <<capIndex \o sideIndex>>)

\* the older definition pushes two normals for four vertices in both loops
tube(version, sides) ==
  IF sides < MinSides(version) THEN Thrown(SidesError)
  ELSE LET perStep == IF version = Newest THEN 4 ELSE 2
           caps == 4 * Len(ForRange(0, sides, 1))
           capIndex == Flatten([k \in DOMAIN ForRange(0, caps - 5, 2) |->
                          LET i == ForRange(0, caps - 5, 2)[k]
                          IN IF i % 4 # 0
                             THEN <<i + 2, i, i + 4, i + 1, i + 3, i + 5>>
                             ELSE <<i, i + 2, i + 4, i + 3, i + 1, i + 5>>])
                       \o <<caps - 4, caps - 2, 0>> \o <<0, caps - 2, 2>>
                       \o <<caps - 1, caps - 3, 1>> \o <<caps - 1, 1, 3>>
           new0 == caps
           vlen == caps + 4 * Len(ForRange(0, sides + 1, 1))
           nlen == perStep * Len(ForRange(0, sides, 1))
                     + perStep * Len(ForRange(0, sides + 1, 1))
           sideIndex == Flatten([k \in DOMAIN ForRange(new0, vlen - 4, 2) |->
                           LET i == ForRange(new0, vlen - 4, 2)[k]
                           IN IF i % 4 # 0
                              THEN <<i, i + 2, i + 4, i + 3, i + 1, i + 5>>
                              ELSE <<i + 2, i, i + 4, i + 1, i + 3, i + 5>>])
       IN Shape(vlen, vlen, nlen, <<capIndex \o sideIndex>>)

\* for (let i=new0; i<vertices.length; i++) index.push(i, i+1, new0-1)
ConeBaseIndex(new0, vlen) ==
  Flatten([k \in DOMAIN ForRange(new0, vlen, 1) |->
             LET i == ForRange(new0, vlen, 1)[k] IN <<i, i + 1, new0 - 1>>])

cone(sides) ==
  IF sides < MinSides(Newest) THEN Thrown(SidesError)
  ELSE LET top == 1 + Len(ForRange(0, sides + 1, 1))
           sideIndex == Flatten([k \in DOMAIN ForRange(1, top - 1, 1) |->
                           LET i == ForRange(1, top - 1, 1)[k] IN <<i + 1, i, 0>>])
           new0 == top + 1
           vlen == new0 + Len(ForRange(0, sides, 1))
       IN Shape(vlen, vlen, vlen,
                <<sideIndex \o ConeBaseIndex(new0, vlen) \o <<vlen - 1, new0, new0 - 1>>>>)

\* the six indices of one quad between slice rows j and j + 1
SliceQuad(sides, j, i) ==
  LET j0 == j * sides + 1
      j1 == (j + 1) * sides + 1
      i0 == j0 + i
      i1 == j0 + ((i + 1) % sides)
      i2 == j1 + ((i + 1) % sides)
      i3 == j1 + i
  IN <<i0, i1, i2, i2, i3, i0>>

SliceIndex(sides, rows) ==
  Flatten([j \in DOMAIN ForRange(0, rows, 1) |->
             Flatten([i \in DOMAIN ForRange(0, sides, 1) |->
                        SliceQuad(sides, ForRange(0, rows, 1)[j], ForRange(0, sides, 1)[i])])])

sphere(sides, slices) ==
  IF sides < MinSides(Newest) THEN Thrown(SidesError)
  ELSE LET vlen == 1 + Len(ForRange(0, slices - 1, 1)) * Len(ForRange(0, sides, 1)) + 1
           capIndex == Flatten([k \in DOMAIN ForRange(0, sides, 1) |->
                          LET i == ForRange(0, sides, 1)[k]
                          IN <<0, ((i + 1) % sides) + 1, i + 1,
                               vlen - 1, i + sides * (slices - 2) + 1,
                               ((i + 1) % sides) + sides * (slices - 2) + 1>>])
       IN Shape(vlen, vlen, vlen, <<capIndex \o SliceIndex(sides, slices - 2)>>)

hemisphere(sides, slices) ==
  IF sides < MinSides(Newest) THEN Thrown(SidesError)
  ELSE LET dome == 1 + Len(ForRange(0, slices, 1)) * Len(ForRange(0, sides, 1))
           topIndex == Flatten([k \in DOMAIN ForRange(0, sides, 1) |->
                          LET i == ForRange(0, sides, 1)[k]
                          IN <<0, ((i + 1) % sides) + 1, i + 1>>])
           new0 == dome
           vlen == dome + Len(ForRange(0, sides, 1)) + 1
           center == vlen - 1
           baseIndex == Flatten([k \in DOMAIN ForRange(0, sides - 1, 1) |->
                           LET i == ForRange(0, sides - 1, 1)[k]
                           IN <<center, new0 + i, new0 + i + 1>>])
                        \o <<center, center - 1, new0>>
       IN Shape(vlen, vlen, vlen,
                <<topIndex \o SliceIndex(sides, slices - 1) \o baseIndex>>)

\* the generator called, by name
Generate(name, version, sides, slices) ==
  CASE name = "template" -> template
    [] name = "rect" -> rect
    [] name = "cube" -> cube
    [] name = "regPolygon" -> regPolygon(version, sides)
    [] name = "torus2d" -> torus2d(version, sides)
    [] name = "cylinder" -> cylinder(version, sides)
    [] name = "tube" -> tube(version, sides)
    [] name = "cone" -> cone(sides)
    [] name = "sphere" -> sphere(sides, slices)
    [] name = "hemisphere" -> hemisphere(sides, slices)

\* one call of a generator; the registry is not involved
CallPrimitive(name, version, sides, slices) ==
  /\ \E shape \in {Generate(name, version, sides, slices)} :
        last' = Call("Primitives." \o name,
                     [name |-> name, version |-> version, sides |-> sides,
                      slices |-> slices],
                     shape.err, shape)
  /\ UNCHANGED <<limits, width, height, msaa, zbuffer, textures, pipelines,
                 clearColor, gpu, deviceLost,
                 pending>>

SidesTried  == 0..MaxSides
SlicesTried == 2..MaxSlices

NextPrimitives ==
  \/ \E name \in {"template", "rect", "cube"} : CallPrimitive(name, Newest, 0, 0)
  \/ \E version \in {Newest, Older, Short}, sides \in SidesTried :
        CallPrimitive("regPolygon", version, sides, 0)
  \/ \E name \in {"torus2d", "cylinder", "tube"}, version \in {Newest, Older},
        sides \in SidesTried : CallPrimitive(name, version, sides, 0)
  \/ \E sides \in SidesTried : CallPrimitive("cone", Newest, sides, 0)
  \/ \E name \in {"sphere", "hemisphere"}, sides \in SidesTried, slices \in SlicesTried :
        CallPrimitive(name, Newest, sides, slices)

SpecPrimitives == Init /\ [][NextPrimitives]_vars

----------------------------------------------------------------------------
(***************************************************************************)
(* ModelLoader.loadObj (src/src/modelLoader.ts)                            *)
(*                                                                         *)
(* A text is a sequence of atoms: the characters the parser looks at       *)
(* (" ", "/", "\n"), the line keywords and single digits.  split is        *)
(* computed on that sequence as String.prototype.split computes it on the  *)
(* characters: two separators in a row, or a separator at the end, give an *)
(* empty part.                                                             *)
(***************************************************************************)
MaxParts == 5
SampleVertices == 4

NaN == -1000

\* s.split(sep): the parts between the separators, empty parts included
Split(s, sep) ==
  LET cuts == {i \in DOMAIN s : s[i] = sep} \cup {0, Len(s) + 1}
      cut(k) == CHOOSE i \in cuts : Cardinality({j \in cuts : j < i}) = k - 1
  IN  [k \in 1..(Cardinality(cuts) - 1) |->
         SubSeq(s, cut(k) + 1, cut(k + 1) - 1)]

RECURSIVE Join(_, _)
Join(parts, sep) ==
  IF parts = <<>> THEN <<>>
  ELSE IF Len(parts) = 1 THEN parts[1]
  ELSE parts[1] \o <<sep>> \o Join(Tail(parts), sep)

StartsWith(line, prefix) ==
  Len(line) >= Len(prefix) /\ SubSeq(line, 1, Len(prefix)) = prefix

Digit == [d \in {"0", "1", "2", "3", "4", "5"} |->
            CASE d = "0" -> 0 [] d = "1" -> 1 [] d = "2" -> 2
              [] d = "3" -> 3 [] d = "4" -> 4 [] d = "5" -> 5]

\* Number(s) of the part at position i of an array (l[i], ixs[i]): NaN for
\* a missing part (undefined), 0 for the empty string, the value of a digit
NumberOf(parts, i) ==
  IF i >= Len(parts) THEN NaN
  ELSE LET s == parts[i + 1]
       IN  IF s = <<>> THEN 0
           ELSE IF Len(s) = 1 /\ s[1] \in DOMAIN Digit THEN Digit[s[1]]
           ELSE NaN

Minus1(n) == IF n = NaN THEN NaN ELSE n - 1

\* arr[idx] of a JavaScript array: undefined (here <<>>) out of range
Entry(arr, idx) ==
  IF idx # NaN /\ idx >= 0 /\ idx < Len(arr) THEN arr[idx + 1] ELSE <<>>

objIndexParse(indexing, verts, uvs, normals) ==
  LET ixs == Split(indexing, "/")
      vIdx == Minus1(NumberOf(ixs, 0))
      uvIdx == Minus1(NumberOf(ixs, 1))
      nIdx == Minus1(NumberOf(ixs, 2))
  IN  [vertex |-> Entry(verts, vIdx), uv |-> Entry(uvs, uvIdx),
       normal |-> Entry(normals, nIdx)]

\* output.vertices.push / uvs.push / normals.push of each group in turn
PushGroups(output, groups) ==
  [vertices |-> output.vertices \o [i \in DOMAIN groups |-> groups[i].vertex],
   uvs      |-> output.uvs \o [i \in DOMAIN groups |-> groups[i].uv],
   normals  |-> output.normals \o [i \in DOMAIN groups |-> groups[i].normal]]

\* the body of dataArr.forEach for one line; acc.err is the error thrown
ObjLine(acc, line) ==
  LET l == Split(line, " ")
      num(i) == NumberOf(l, i)
      bad == [acc EXCEPT !.err = "Invalid line input"]
  IN  IF StartsWith(line, <<"v", " ">>) THEN
        IF Len(l) # 4 THEN bad
        ELSE [acc EXCEPT !.vertices = Append(@, <<num(1), num(2), num(3)>>)]
      ELSE IF StartsWith(line, <<"vt", " ">>) THEN
        IF Len(l) # 3 THEN bad
        ELSE [acc EXCEPT !.uvs = Append(@, <<num(1), num(2)>>)]
      ELSE IF StartsWith(line, <<"vn", " ">>) THEN
        IF Len(l) # 4 THEN bad
        ELSE [acc EXCEPT !.normals = Append(@, <<num(1), num(2), num(3)>>)]
      ELSE IF StartsWith(line, <<"f", " ">>) THEN
        IF Len(l) < 4 \/ Len(l) > 5 THEN bad
        ELSE LET g(i) == objIndexParse(l[i + 1], acc.vertices, acc.uvs,
                                       acc.normals)
             IN  [acc EXCEPT !.output =
                    PushGroups(@, IF Len(l) = 5
                                  THEN <<g(1), g(2), g(3), g(3), g(4), g(1)>>
                                  ELSE <<g(1), g(2), g(3)>>)]
      ELSE acc

RECURSIVE ObjLines(_, _)
ObjLines(acc, lines) ==
  IF lines = <<>> \/ acc.err # "" THEN acc
  ELSE ObjLines(ObjLine(acc, Head(lines)), Tail(lines))

loadObj(rawData) ==
  LET dataArr == Split(rawData, "\n")
      done == ObjLines([vertices |-> <<>>, uvs |-> <<>>, normals |-> <<>>,
                        output |-> [vertices |-> <<>>, uvs |-> <<>>,
                                    normals |-> <<>>],
                        err |-> ""], dataArr)
  IN  IF done.err # "" THEN [err |-> done.err, output |-> Undef]
      ELSE [err |-> "", output |-> done.output]

(* The files tried.  A file declares SampleVertices positions, uvs and     *)
(* normals and then its faces.  A face is given as the parts that follow   *)
(* "f" on its line, each separated by one space: part k > 0 is the         *)
(* reference "k/k/k", part 0 is the empty string (what a second space in   *)
(* a row, or a space at the end of the line, leaves).                      *)
DigitOf(k) == CHOOSE d \in DOMAIN Digit : Digit[d] = k

SampleVertex(k) == <<k, 0, 0>>
SampleUv(k)     == <<k, 1>>
SampleNormal(k) == <<0, 0, k>>

NumberLine(keyword, values) ==
  Join(<< <<keyword>> >> \o [i \in DOMAIN values |-> <<DigitOf(values[i])>>],
       " ")

Reference(k) ==
  IF k = 0 THEN <<>> ELSE <<DigitOf(k), "/", DigitOf(k), "/", DigitOf(k)>>

FaceLine(face) ==
  Join(<< <<"f">> >> \o [i \in DOMAIN face |-> Reference(face[i])], " ")

ObjText(faces) ==
  Join([k \in 1..SampleVertices |-> NumberLine("v", SampleVertex(k))]
       \o [k \in 1..SampleVertices |-> NumberLine("vt", SampleUv(k))]
       \o [k \in 1..SampleVertices |-> NumberLine("vn", SampleNormal(k))]
       \o [i \in DOMAIN faces |-> FaceLine(faces[i])],
       "\n")

Faces == UNION {[1..n -> 0..SampleVertices] : n \in 1..MaxParts}

TwoFaces == {<<1, 2, 3>>, <<1, 2, 3, 4>>, <<4, 3, 2, 1>>, <<2, 1>>}

ObjFiles == {<<f>> : f \in Faces} \cup (TwoFaces \X TwoFaces)

\* const rawData = await fetch(file).then(v => v.text()): the text arrives
Fetched(faces) ==
  Call("fetch", [faces |-> faces, file |-> ObjText(faces)], "", Undef)

InitObj == \E faces \in ObjFiles : InitHaving(Fetched(faces))

\* the rest of loadObj, from the split of the text to the return
LoadObj ==
  /\ last.op = "fetch"
  /\ \E out \in {loadObj(last.args.file)} :
        last' = Call("ModelLoader.loadObj", last.args, out.err, out.output)
  /\ UNCHANGED <<limits, width, height, msaa, zbuffer, textures, pipelines,
                 clearColor, gpu, deviceLost,
                 pending>>

NextObj == LoadObj

SpecObj == InitObj /\ [][NextObj]_vars

----------------------------------------------------------------------------
(***************************************************************************)
(* Mat4.multiply with Mat4.identity (src/src/short-webgpu/mat4.ts)         *)
(***************************************************************************)
MaxEntry == 2

EntryRange == (0 - MaxEntry)..MaxEntry

\* matrices tried: one with sixteen different entries and the zero matrix,
\* each with up to two entries replaced by any value of the range
Sequential == [n \in 1..16 |-> n]

Matrices ==
  { [n \in 1..16 |-> IF n = p THEN v ELSE IF n = q THEN w ELSE base[n]] :
      p \in 1..16, q \in 1..16, v \in EntryRange, w \in EntryRange,
      base \in {Sequential, [n \in 1..16 |-> 0]} }

InitMat4 == \E m \in Matrices : InitHaving(Call("matrix", [m |-> m], "", Undef))

CallMultiply(a, b) ==
  /\ last' = Call("Mat4.multiply", [a |-> a, b |-> b], "", Mat4multiply(a, b))
  /\ UNCHANGED <<limits, width, height, msaa, zbuffer, textures, pipelines,
                 clearColor, gpu, deviceLost,
                 pending>>

NextMat4 ==
  /\ last.op = "matrix"
  /\ \/ CallMultiply(Mat4identity, last.args.m)
     \/ CallMultiply(last.args.m, Mat4identity)

SpecMat4 == InitMat4 /\ [][NextMat4]_vars

----------------------------------------------------------------------------
(***************************************************************************)
(* ModelLoader.loadGltfMesh (src/src/modelLoader.ts)                       *)
(*                                                                         *)
(* The primitive names four accessors, in the order the function reads     *)
(* them: POSITION, TEXCOORD_0, NORMAL, indices.  Accessor i uses buffer    *)
(* view i, which takes one byte at offset i - 1 of the buffer it names.    *)
(***************************************************************************)
MaxBuffers == 2
BufferBytes == 4

ExpectedTypes == <<"VEC3", "VEC2", "VEC3", "SCALAR">>

\* the bytes of buffer b (0-based) once fetched
BufferContent(b) == [n \in 1..BufferBytes |-> 10 * b + n - 1]

\* ArrayBuffer.prototype.slice(start, end)
Slice(buffer, start, end) ==
  SubSeq(buffer, start + 1, IF end > Len(buffer) THEN Len(buffer) ELSE end)

\* the documents tried: how many buffers, whether the primitive has
\* indices, the type of each accessor, the buffer each view names
GltfDocuments ==
  [buffers : 1..MaxBuffers,
   indices : BOOLEAN,
   types : {ExpectedTypes, <<"VEC3", "VEC2", "VEC3", "VEC3">>},
   viewBuffer : [1..4 -> 0..(MaxBuffers + 1)]]

\* one "read data from buffer" block, for accessor i; out is the output
\* so far, out.err the error thrown so far
ReadAccessor(data, buffers, out, i) ==
  IF out.err # "" \/ data.types[i] # ExpectedTypes[i] THEN out
  ELSE LET bufferAccess == data.viewBuffer[i]
           start == i - 1
           end == start + 1
       IN  IF bufferAccess > Len(buffers)
           THEN [out EXCEPT !.err = "tried to access non-existant buffer"]
           ELSE IF At(buffers, bufferAccess) = <<>>
           THEN [out EXCEPT !.err = "TypeError: buffers[bufferAccess] is undefined"]
           ELSE [out EXCEPT !.slices[i] =
                   Slice(buffers[bufferAccess + 1], start, end)]

loadGltfMesh(data) ==
  IF ~data.indices
  THEN [err |-> "Could not find all primitive attributes",
        slices |-> <<<<>>, <<>>, <<>>, <<>>>>]
  ELSE LET buffers == [b \in 1..data.buffers |-> BufferContent(b - 1)]
           empty == [err |-> "", slices |-> <<<<>>, <<>>, <<>>, <<>>>>]
       IN  ReadAccessor(data, buffers,
             ReadAccessor(data, buffers,
               ReadAccessor(data, buffers,
                 ReadAccessor(data, buffers, empty, 1), 2), 3), 4)

InitGltf ==
  \E data \in GltfDocuments : InitHaving(Call("loadGltf", data, "", Undef))

LoadGltfMesh ==
  /\ last.op = "loadGltf"
  /\ \E out \in {loadGltfMesh(last.args)} :
        last' = Call("ModelLoader.loadGltfMesh", last.args, out.err,
                     IF out.err = "" THEN out.slices ELSE Undef)
  /\ UNCHANGED <<limits, width, height, msaa, zbuffer, textures, pipelines,
                 clearColor, gpu, deviceLost,
                 pending>>

NextGltf == LoadGltfMesh

SpecGltf == InitGltf /\ [][NextGltf]_vars

----------------------------------------------------------------------------
(***************************************************************************)
(* Vec.add and Vec.subtract (src/unnamed/part_012)                         *)
(***************************************************************************)
MaxComponent == 1

\* the Float32Array arguments tried: 2 to 4 integer components
Vectors ==
  UNION {[1..n -> (0 - MaxComponent)..MaxComponent] : n \in 2..4}

\* new Float32Array(size3), then the assignments in the order of the code;
\* dst[i] is element i + 1 of the sequence
VecAdd(v1, v2) ==
  LET size1 == Len(v1)
      size2 == Len(v2)
      size3 == IF size1 > size2 THEN size1 ELSE size2
      d0 == [i \in 1..size3 |-> 0]
      d1 == [d0 EXCEPT ![1] = v1[1] + v2[1]]
      d2 == [d1 EXCEPT ![2] = v1[2] + v1[2]]
      d3 == IF size3 > 2 /\ size1 > 2 THEN [d2 EXCEPT ![3] = v1[3]] ELSE d2
      d4 == IF size2 > 2 THEN [d3 EXCEPT ![3] = @ + v2[3]] ELSE d3
      d5 == IF size3 > 3 /\ size1 > 3 THEN [d4 EXCEPT ![4] = v1[4]] ELSE d4
      d6 == IF size2 > 3 THEN [d5 EXCEPT ![4] = @ + v2[4]] ELSE d5
  IN  d6

VecSubtract(v1, v2) ==
  LET size1 == Len(v1)
      size2 == Len(v2)
      size3 == IF size1 > size2 THEN size1 ELSE size2
      d0 == [i \in 1..size3 |-> 0]
      d1 == [d0 EXCEPT ![1] = v1[1] - v2[1]]
      d2 == [d1 EXCEPT ![2] = v1[2] - v2[2]]
      d3 == IF size3 > 2 /\ size1 > 2 THEN [d2 EXCEPT ![3] = v1[3]] ELSE d2
      d4 == IF size2 > 2 THEN [d3 EXCEPT ![3] = @ - v2[3]] ELSE d3
      d5 == IF size3 > 3 /\ size1 > 3 THEN [d4 EXCEPT ![4] = v1[4]] ELSE d4
      d6 == IF size2 > 3 THEN [d5 EXCEPT ![4] = @ - v2[4]] ELSE d5
  IN  d6

InitVec ==
  \E v1 \in Vectors : \E v2 \in Vectors :
     InitHaving(Call("vectors", [v1 |-> v1, v2 |-> v2], "", Undef))

CallVec(name, dst) ==
  /\ last.op = "vectors"
  /\ last' = Call(name, last.args, "", dst)
  /\ UNCHANGED <<limits, width, height, msaa, zbuffer, textures, pipelines,
                 clearColor, gpu, deviceLost, pending>>

NextVec ==
  \/ CallVec("Vec.add", VecAdd(last.args.v1, last.args.v2))
  \/ CallVec("Vec.subtract", VecSubtract(last.args.v1, last.args.v2))

SpecVec == InitVec /\ [][NextVec]_vars

----------------------------------------------------------------------------
(* Inputs the calls are tried with *)

PipelineIds == 0..MaxPipelines
ObjectIds   == 0..MaxObjects
TextureIds  == 0..MaxTextures

StaticUniform  == [bindSlot |-> 0, dynamic |-> FALSE, type |-> "vec4f"]
DynamicUniform == [bindSlot |-> 1, dynamic |-> TRUE, type |-> "f32"]

PlainOptions    == [texture1Id |-> Undef, texture2Id |-> Undef, uniforms |-> <<>>]
UniformOptions  == [texture1Id |-> Undef, texture2Id |-> Undef,
                    uniforms |-> <<DynamicUniform, StaticUniform>>]
Texture1Options == [texture1Id |-> 0, texture2Id |-> Undef, uniforms |-> <<>>]
Texture2Options == [texture1Id |-> 1, texture2Id |-> 0, uniforms |-> <<StaticUniform>>]

\* the optional fields updateObject is tried with
Moved(input, visible) ==
  [input EXCEPT !.translate = <<10, 0, 0>>, !.rotateDeg = <<0>>,
                !.camera = MakeCamera("persp"), !.visible = visible,
                !.uniformData = <<7>>]

Scaled(input) ==
  [input EXCEPT !.translate = <<-10, 0, 0>>, !.scale = <<2, 2, 2>>,
                !.camera = MakeCamera("ortho"), !.uniformData = <<0, 9>>]

\* registered handles, and one handle that is never registered
KnownPipelines == 0..(Len(pipelines) - 1)
KnownObjects(p) == 0..(Len(pipelines[p + 1].objects) - 1)

UpdateInputs ==
  { DefaultInput(MaxPipelines, 0) }
  \cup { DefaultInput(p, MaxObjects) : p \in KnownPipelines }
  \cup UNION { UNION { { DefaultInput(p, o),
                         Moved(DefaultInput(p, o), <<TRUE>>),
                         Moved(DefaultInput(p, o), <<FALSE>>),
                         Scaled(DefaultInput(p, o)) } :
                       o \in KnownObjects(p) } :
               p \in KnownPipelines }

RenderLists == { <<0>>, <<1, 0>>, <<2, 0, 0>> }

\* the object registry: pipelines, objects, per-frame update and draw
Next ==
  \/ \E n \in ObjCounts : AddPipeline(n, PlainOptions)
  \/ AddPipeline(2, UniformOptions)
  \/ \E p \in KnownPipelines : AddObject(p, 3, 0, <<>>)
  \/ AddObject(0, 2, 0, <<>>)
  \/ \E p \in KnownPipelines : AddObjectAsBuffers(p, 4, 12, 6, <<10>>)
  \/ \E input \in UpdateInputs : UpdateObject(input)
  \/ \E ids \in RenderLists : Render(ids, <<>>)

Spec == Init /\ [][Next]_vars

\* a renderer constructed on a device with other offset alignments
InitLimits ==
  /\ limits \in [minUniformBufferOffsetAlignment : AlignValues,
                 minStorageBufferOffsetAlignment : AlignValues]
  /\ width = InitDim[1]
  /\ height = InitDim[2]
  /\ gpu = << NewTargetTexture("msaa", InitDim[1], InitDim[2]),
              NewTargetTexture("zbuffer", InitDim[1], InitDim[2]) >>
  /\ msaa = 1
  /\ zbuffer = 2
  /\ textures = <<>>
  /\ pipelines = <<>>
  /\ clearColor = [r |-> 0, g |-> 0, b |-> 0, a |-> 255]
  /\ deviceLost = FALSE
  /\ pending = <<>>
  /\ last = Call("init", NoArgs, "", Undef)

NextLimits ==
  \/ AddPipeline(2, UniformOptions)
  \/ AddObject(0, 3, 0, <<>>)
  \/ \E input \in UpdateInputs : UpdateObject(input)
  \/ Render(<<0>>, <<>>)

SpecLimits == InitLimits /\ [][NextLimits]_vars

\* resizing the canvas between frames
ResourceInputs ==
  UNION { UNION { { Moved(DefaultInput(p, o), <<TRUE>>),
                    Moved(DefaultInput(p, o), <<FALSE>>) } :
                  o \in KnownObjects(p) } :
          p \in KnownPipelines \cap {Len(pipelines) - 1} }

NextCanvas ==
  \/ AddTexture(<<512, 512>>)
  \/ AddPipeline(1, Texture1Options)
  \/ AddObject(Len(pipelines) - 1, 3, 0, <<>>)
  \/ \E input \in ResourceInputs : UpdateObject(input)
  \/ Render(<<1, 0>>, IF textures = <<>> THEN <<>> ELSE <<0>>)
  \/ UpdateClearRGB(15, 20, 30, <<>>)
  \/ \E dim \in Dims : UpdateCanvas(dim[1], dim[2])

SpecCanvas == Init /\ [][NextCanvas]_vars

\* textures, bind groups and teardown; the caller stops after destroy()
NextTextures ==
  \/ ~deviceLost /\ AddTexture(<<512, 512>>)
  \/ ~deviceLost /\ \E options \in {PlainOptions, Texture1Options, Texture2Options} :
                      AddPipeline(1, options)
  \/ ~deviceLost /\ \E p \in KnownPipelines : AddObject(p, 3, 0, <<>>)
  \/ ~deviceLost /\ \E t \in TextureIds, p \in PipelineIds :
                      UpdateTextureSize(t, p, <<680, 680>>)
  \/ ~deviceLost /\ UpdateCanvas(680, 680)
  \/ ~deviceLost /\ Destroy

SpecTextures == Init /\ [][NextTextures]_vars

\* pipelines with custom uniforms, created for one object or for two
NextUniforms ==
  \/ \E n \in ObjCounts : AddPipeline(n, UniformOptions)
  \/ \E p \in KnownPipelines : AddObject(p, 3, 0, <<>>)
  \/ \E input \in UpdateInputs : UpdateObject(input)
  \/ Render(<<0>>, <<>>)

SpecUniforms == Init /\ [][NextUniforms]_vars

\* render with registered and unregistered pipeline ids and targets
RenderTargets == {<<>>} \cup {<<t>> : t \in TextureIds}

NextRender ==
  \/ AddTexture(<<512, 512>>)
  \/ AddPipeline(1, PlainOptions)
  \/ \E p \in KnownPipelines : AddObject(p, 3, 0, <<>>)
  \/ \E p \in KnownPipelines : \E o \in KnownObjects(p) :
        \E input \in {DefaultInput(p, o), Moved(DefaultInput(p, o), <<FALSE>>)} :
           UpdateObject(input)
  \/ \E ids \in RenderLists : \E target \in RenderTargets : Render(ids, target)

SpecRender == Init /\ [][NextRender]_vars

\* addTexture calls, some of them waiting for their image
NextInFlight ==
  \/ AddTexture(<<512, 512>>)
  \/ \E dim \in {<<512, 512>>, <<680, 680>>} : AddTextureBegin(dim)
  \/ \E i \in DOMAIN pending : AddTextureResume(i)

SpecInFlight == Init /\ [][NextInFlight]_vars

\* updateTexture calls waiting for their image, and the calls that may run
\* while they wait
NextUpdateTexture ==
  \/ AddTexture(<<512, 512>>)
  \/ pipelines = <<>> /\ AddPipeline(1, Texture1Options)
  \/ \E t \in TextureIds : UpdateTextureBegin(t)
  \/ \E i \in DOMAIN pending : UpdateTextureResume(i)
  \/ Len(gpu) <= MaxGpu \div 2 /\ \E t \in TextureIds :
                                    UpdateTextureSize(t, 0, <<680, 680>>)
  \/ Destroy

SpecUpdateTexture == Init /\ [][NextUpdateTexture]_vars

\* a caller that keeps using the registry after destroy()
NextDestroyed ==
  \/ AddTexture(<<512, 512>>)
  \/ AddPipeline(1, PlainOptions)
  \/ \E p \in KnownPipelines : AddObject(p, 3, 0, <<>>)
  \/ \E p \in KnownPipelines : \E o \in KnownObjects(p) :
        UpdateObject(Moved(DefaultInput(p, o), <<>>))
  \/ Render(<<0>>, <<>>)
  \/ Destroy

SpecDestroyed == Init /\ [][NextDestroyed]_vars

----------------------------------------------------------------------------
(* Observations the properties are stated with *)

\* the call that produced the current state returned normally
Returned(op) == last.op = op /\ last.err = ""

\* the three cells render binds for obj: its uniform slot
SlotCells(g, pipeline, obj) ==
  LET data == g[pipeline.bindGroup0.base.buffer].data
      first == BindOffset(obj) \div MatBytes
  IN [c \in 1..MvpCells |->
        IF first + c <= Len(data) THEN data[first + c] ELSE [k |-> "outside"]]

\* every (pipeline position, object position) of a pipeline list
ObjectKeys(pls) ==
  UNION { { <<p, o>> : o \in DOMAIN pls[p].objects } : p \in DOMAIN pls }

\* the x, y, z updateObject reads from an optional translate
TranslateOf(t) == << OrElse(t, 1, 0), OrElse(t, 2, 0), OrElse(t, 3, 0) >>

----------------------------------------------------------------------------
(* C1: every pipeline holds at most the maxObjCount objects it was created
   with, after any sequence of addPipeline / addObject / addObjectAsBuffers
   calls (an add call on a full pipeline is rejected and adds nothing). *)
C1_CapacityRespected ==
  \A p \in DOMAIN pipelines : Len(pipelines[p].objects) <= pipelines[p].maxObjCount

(* C2: for every object and every pair of device limits, the byte offset at
   which updateObject writes the object's MVP block is the offset render
   binds as the dynamic uniform offset of that object's draw call. *)
C2_WriteOffsetIsBindOffset ==
  (Returned("updateObject") /\ last.writes # <<>>) =>
     LET pipeline == pipelines[last.args.pipelineId + 1]
         obj == pipeline.objects[last.args.objectId + 1]
     IN last.writes[1].offset = DrawObject(last.args.pipelineId, pipeline, obj).offset0

(* C3: a visible updateObject call leaves, in the uniform slot of its own
   object, a model matrix whose translation components are the translate
   input of the call, and changes the slot of no other object, in the same
   pipeline or in another one. *)
C3_UpdateStep ==
  (last'.op = "updateObject" /\ last'.err = "") =>
     LET a == last'.args
         own == <<a.pipelineId + 1, a.objectId + 1>>
         cell == SlotCells(gpu', pipelines'[own[1]], pipelines'[own[1]].objects[own[2]])[1]
     IN /\ \A key \in ObjectKeys(pipelines) :
             key # own =>
               SlotCells(gpu', pipelines'[key[1]], pipelines'[key[1]].objects[key[2]])
                 = SlotCells(gpu, pipelines[key[1]], pipelines[key[1]].objects[key[2]])
        /\ a.visible # <<FALSE>> =>
             /\ cell.k = "mat"
             /\ << cell.m[13], cell.m[14], cell.m[15] >> = TranslateOf(a.translate)

C3_OwnSlotOnly == [][C3_UpdateStep]_vars

(* C4: render(pipelineIds) records one render pass whose draw calls are, for
   each listed registered pipeline in list order, one call per visible
   object in insertion order, and none for an invisible object. *)
VisibleSlots(pipeline) ==
  LET slots == [i \in DOMAIN pipeline.objects |-> i - 1]
  IN SelectSeq(slots, LAMBDA slot : pipeline.objects[slot + 1].visible)

RECURSIVE ExpectedDraws(_)
ExpectedDraws(ids) ==
  IF ids = <<>> THEN <<>>
  ELSE (IF ids[1] + 1 \in DOMAIN pipelines
        THEN LET slots == VisibleSlots(pipelines[ids[1] + 1])
             IN [i \in DOMAIN slots |-> <<ids[1], slots[i]>>]
        ELSE <<>>)
       \o ExpectedDraws(Tail(ids))

C4_DrawPerVisibleObject ==
  last.op = "render" =>
     /\ Len(last.passes) = 1
     /\ LET draws == last.passes[1].draws
        IN /\ [i \in DOMAIN draws |-> <<draws[i].pipeline, draws[i].slot>>]
                = ExpectedDraws(last.args.pipelineIds)
           /\ \A i \in DOMAIN draws :
                LET obj == pipelines[draws[i].pipeline + 1].objects[draws[i].slot + 1]
                IN /\ obj.visible
                   /\ draws[i].vertexBuffers[1] = obj.vertexBuffer
                   /\ draws[i].call \in {"draw", "drawIndexed"}

C4_Witness ==
  /\ last.op = "render"
  /\ last.args.pipelineIds = <<2, 0, 0>>
  /\ Len(pipelines) = 1
  /\ Len(pipelines[1].objects) = 3
  /\ Len(last.passes[1].draws) = 4
  /\ ~pipelines[1].objects[2].visible
  /\ [i \in 1..4 |-> last.passes[1].draws[i].slot] = <<0, 2, 0, 2>>

(* C5: updateObject with visible=false sets the visibility flag of the object
   to false and writes no buffer: the MVP slots and the custom uniform
   buffers keep their contents, whatever else the call carries. *)
C5_HideStep ==
  (last'.op = "updateObject" /\ last'.err = "" /\ last'.args.visible = <<FALSE>>) =>
     /\ ~pipelines'[last'.args.pipelineId + 1].objects[last'.args.objectId + 1].visible
     /\ last'.writes = <<>>
     /\ \A h \in DOMAIN gpu : gpu'[h] = gpu[h]
     /\ DOMAIN gpu' = DOMAIN gpu

C6_SlotsInOrder ==
  /\ \A key \in ObjectKeys(pipelines) :
        pipelines[key[1]].objects[key[2]].pipelineIndex = key[2] - 1
  /\ \A p \in DOMAIN pipelines : \A i, j \in DOMAIN pipelines[p].objects :
        i # j => BindOffset(pipelines[p].objects[i]) # BindOffset(pipelines[p].objects[j])
  /\ (last.op \in {"addObject", "addObjectAsBuffers"} /\ last.err = "") =>
        /\ last.ret = Len(pipelines[last.args.pipelineId + 1].objects) - 1
        /\ pipelines[last.args.pipelineId + 1].objects[last.ret + 1].pipelineIndex = last.ret

C6_KeepStep ==
  ~deviceLost' =>
    \A key \in ObjectKeys(pipelines) :
      /\ key \in ObjectKeys(pipelines')
      /\ pipelines'[key[1]].objects[key[2]].pipelineIndex
           = pipelines[key[1]].objects[key[2]].pipelineIndex
      /\ pipelines'[key[1]].objects[key[2]].vertexBuffer
           = pipelines[key[1]].objects[key[2]].vertexBuffer

C6_IdsAreListPositions == [](~deviceLost => C6_SlotsInOrder) /\ [][C6_KeepStep]_vars

C6_Witness ==
  /\ Returned("addObject")
  /\ last.ret = 2
  /\ Len(pipelines[last.args.pipelineId + 1].objects) = 3

(* C7: after updateTextureSize(textureId, ...) completes, every pipeline
   whose bind group referenced the texture registered under textureId has a
   regenerated bind group that references the new texture, and no pipeline's
   bind group still references the destroyed old texture. *)
References(pipeline, texture) ==
  texture \in {pipeline.bindGroup0.base.texture1, pipeline.bindGroup0.base.texture2}

C7_ResizeStep ==
  (last'.op = "updateTextureSize" /\ last'.err = "") =>
     LET old == textures[last'.args.textureId + 1]
         new == textures'[last'.args.textureId + 1]
     IN \A p \in DOMAIN pipelines :
          /\ ~References(pipelines'[p], old)
          /\ References(pipelines[p], old) => References(pipelines'[p], new)

C7_BindGroupsFollowResize == [][C7_ResizeStep]_vars

(* C8: updateCanvas(w, h) replaces only the multisample colour target, the
   depth buffer and the stored width and height; the pipeline list, every
   object's visibility flag and buffers, the contents of every uniform
   buffer, the texture list and the clear colour are unchanged. *)
OwnedHandles ==
  Range(textures) \cup Range(PipelineHandles(pipelines))
    \cup { pipelines[p].bindGroup0.base.texture1 : p \in DOMAIN pipelines }
    \cup { pipelines[p].bindGroup0.base.texture2 : p \in DOMAIN pipelines }

C8_ResizeStep ==
  last'.op = "updateCanvas" =>
     /\ pipelines' = pipelines
     /\ textures' = textures
     /\ clearColor' = clearColor
     /\ \A h \in OwnedHandles : gpu'[h] = gpu[h]
     /\ width' = last'.args.w /\ height' = last'.args.h
     /\ msaa' \notin DOMAIN gpu /\ zbuffer' \notin DOMAIN gpu /\ msaa' # zbuffer'
     /\ gpu'[msaa'].w = last'.args.w /\ gpu'[msaa'].h = last'.args.h
     /\ gpu'[zbuffer'].w = last'.args.w /\ gpu'[zbuffer'].h = last'.args.h

C8_CanvasResizeFrame == [][C8_ResizeStep]_vars

C8_Witness ==
  /\ last.op = "updateCanvas"
  /\ width = 680 /\ height = 512
  /\ textures # <<>>
  /\ clearColor.r = 15
  /\ \E key \in ObjectKeys(pipelines) :
        /\ ~pipelines[key[1]].objects[key[2]].visible
        /\ SlotCells(gpu, pipelines[key[1]], pipelines[key[1]].objects[key[2]])[3].k = "persp"

(* C9: after updateCanvas(w, h), render does not fail and the next
   projection matrix that is computed uses the new dimensions: orthographic
   bounds -w/2, w/2, h/2, -h/2, or a perspective aspect ratio of w/h. *)
UsesCanvasSize(proj) ==
  /\ proj.k \in {"ortho", "persp"}
  /\ proj.k = "ortho" =>
       /\ 2 * proj.right = width /\ proj.left = -proj.right
       /\ 2 * proj.top = height /\ proj.bottom = -proj.top
  /\ proj.k = "persp" => proj.aspect[1] * height = proj.aspect[2] * width

C9_ProjectionOfCurrentSize ==
  /\ last.op = "render" => last.err = "" /\ Len(last.passes) = 1
  /\ (last.op \in {"updateObject", "addObject"} /\ last.writes # <<>>) =>
        UsesCanvasSize(last.writes[1].data[3])

C9_SizeStep ==
  /\ last'.op = "updateCanvas" => width' = last'.args.w /\ height' = last'.args.h
  /\ (width' # width \/ height' # height) => last'.op = "updateCanvas"

C9_NewSizeIsUsed == []C9_ProjectionOfCurrentSize /\ [][C9_SizeStep]_vars

C9_Witness ==
  /\ Returned("updateObject")
  /\ width = 680 /\ height = 512
  /\ last.writes # <<>>
  /\ last.writes[1].data[3].k = "persp"
  /\ last.writes[1].data[3].aspect = <<340, 256>>

(* C10: after destroy(), every GPU texture and buffer the registry created
   has been released, including the render targets replaced by updateCanvas,
   the uniform buffers replaced by updateTextureSize and the placeholder
   textures of pipelines without textures. *)
C10_EverythingReleased ==
  Returned("destroy") => \A h \in DOMAIN gpu : gpu[h].destroyed

(* C11: destroy() releases first every per-object buffer, then every
   per-pipeline shared uniform buffer, then the textures, and the device
   last: in the sequence of destroy calls no texture comes before a buffer
   and no shared uniform buffer comes before an object's buffer. *)
SharedLabels == {"mvp-struct-uniform", "custom-uniform"}

ReleaseRank(h) ==
  IF gpu[h].kind = "texture" THEN 3
  ELSE IF gpu[h].label \in SharedLabels THEN 2 ELSE 1

C11_ReleaseOrder ==
  Returned("destroy") =>
     /\ deviceLost
     /\ \A i, j \in DOMAIN last.destroys :
          i < j => ReleaseRank(last.destroys[i]) <= ReleaseRank(last.destroys[j])

(* C12: no transition returns from Destroyed: once destroy() has been
   called, no later call registers a pipeline, an object or a texture, and
   no later render call submits a render pass. *)
C12_DestroyedStep ==
  deviceLost =>
     /\ Len(pipelines') <= Len(pipelines)
     /\ Len(textures') <= Len(textures)
     /\ ObjectKeys(pipelines') \subseteq ObjectKeys(pipelines)
     /\ last'.passes = <<>>
     /\ deviceLost'

C12_DestroyedIsFinal == [][C12_DestroyedStep]_vars

(* C13: an operation that fails leaves the bookkeeping as it was before the
   call: the texture list, every pipeline's object list and bind groups are
   unchanged, and no registered texture has been destroyed. *)
C13_FailStep ==
  last'.err # "" =>
     /\ textures' = textures
     /\ pipelines' = pipelines
     /\ \A h \in Range(textures) : gpu'[h] = gpu[h]

C13_FailureChangesNothing == [][C13_FailStep]_vars

(* C14: addObject called with fewer than 3 vertices throws before any GPU
   buffer is created, and the object list of the target pipeline (every
   pipeline's) is unchanged. *)
C14_DegenerateStep ==
  (last'.op = "addObject" /\ last'.args.vlen < 3) =>
     /\ last'.err = "Not enough vertices"
     /\ gpu' = gpu
     /\ pipelines' = pipelines

C14_TooFewVerticesRejected == [][C14_DegenerateStep]_vars

C14_Witness ==
  /\ last.op = "addObject"
  /\ last.args.vlen = 2
  /\ last.err = "Not enough vertices"
  /\ Len(pipelines) >= 1
  /\ Len(pipelines[1].objects) >= 1

(* C15: updateObject given a pipelineId that is not registered, or an
   objectId that is not an object of that pipeline, throws a not-found error
   and changes no visibility flag and no buffer. *)
KnownTarget(pls, pipelineId, objectId) ==
  /\ pipelineId + 1 \in DOMAIN pls
  /\ objectId + 1 \in DOMAIN pls[pipelineId + 1].objects

C15_NotFoundStep ==
  (last'.op = "updateObject"
     /\ ~KnownTarget(pipelines, last'.args.pipelineId, last'.args.objectId)) =>
     /\ last'.err = IF last'.args.pipelineId + 1 \in DOMAIN pipelines
                    THEN "Could not find object" ELSE "Could not find pipeline"
     /\ last'.writes = <<>>
     /\ pipelines' = pipelines
     /\ gpu' = gpu

C15_UnknownTargetRejected == [][C15_NotFoundStep]_vars

C15_Witness ==
  /\ last.op = "updateObject"
  /\ last.err = "Could not find object"
  /\ Len(pipelines[last.args.pipelineId + 1].objects) >= 1
  /\ \E p \in DOMAIN pipelines : \E o \in DOMAIN pipelines[p].objects :
        ~pipelines[p].objects[o].visible

(* C16: the camera is not retained between updates: the view and the
   projection updateObject writes are those of the camera passed in the same
   call and of the current canvas size; a call without a camera writes the
   identity view and the orthographic projection of the canvas, whatever an
   earlier update of the same object passed. *)
ViewOf(camera) ==
  IF camera.type = "none" THEN [k |-> "mat", m |-> Mat4identity]
  ELSE [k |-> "view",
        viewt |-> Mat4translate(-camera.translate[1], -camera.translate[2],
                                -camera.translate[3]),
        pos |-> camera.translate, lookAt |-> camera.lookAt, up |-> camera.up]

ProjectionOf(camera, w, h) ==
  CASE camera.type = "persp" ->
         Mat4perspective(camera.fovY, w \div 2, h \div 2, camera.near, camera.far)
    [] camera.type = "ortho" ->
         Mat4ortho(-(w \div 2), w \div 2, h \div 2, -(h \div 2),
                   <<camera.near>>, <<camera.far>>)
    [] OTHER ->
         Mat4ortho(-(w \div 2), w \div 2, h \div 2, -(h \div 2), <<>>, <<>>)

CameraPassed(type) == IF type = "none" THEN NoCamera ELSE MakeCamera(type)

C16_CameraStep ==
  (last'.op = "updateObject" /\ last'.err = "" /\ last'.writes # <<>>) =>
     /\ last'.writes[1].data[2] = ViewOf(CameraPassed(last'.args.camera))
     /\ last'.writes[1].data[3]
          = ProjectionOf(CameraPassed(last'.args.camera), width', height')

C16_CameraNotRetained == [][C16_CameraStep]_vars

\* an update without a camera of an object whose dynamic uniform slot still
\* holds the value that only the perspective update writes
C16_Witness ==
  /\ Returned("updateObject")
  /\ last.args.camera = "none"
  /\ last.writes # <<>>
  /\ last.writes[1].data[3].k = "ortho"
  /\ LET pipeline == pipelines[last.args.pipelineId + 1]
         obj == pipeline.objects[last.args.objectId + 1]
     IN /\ pipeline.bindGroup1.defined
        /\ LET data == gpu[pipeline.bindGroup1.entries[1]].data
               cell == WriteOffset(obj) \div MatBytes + 1
           IN /\ cell <= Len(data)
              /\ data[cell] = [k |-> "data", v |-> 7]
        /\ SlotCells(gpu, pipeline, obj)[3].k = "ortho"

(* C17: immediately after addObject returns, the new object is visible and
   its uniform slot holds the initial transform: the identity model matrix,
   the identity view matrix and the orthographic projection of the current
   canvas size. *)
InitialTransform ==
  << [k |-> "mat", m |-> Mat4identity],
     ViewOf(NoCamera),
     ProjectionOf(NoCamera, width, height) >>

C17_InitialTransform ==
  Returned("addObject") =>
     LET pipeline == pipelines[last.args.pipelineId + 1]
         obj == pipeline.objects[last.ret + 1]
     IN /\ obj.visible
        /\ SlotCells(gpu, pipeline, obj) = InitialTransform

(* C18: for every indexed primitive generator (torus2d, cylinder, tube,
   cone, sphere, hemisphere), every sides >= 3 and every slices >= 2, each
   value of the returned index sequence is >= 0 and < vertices.length. *)
Generated == last.op \notin {"init"} /\ last.err = "" /\ "name" \in DOMAIN last.args

C18_IndexInRange ==
  (Generated /\ last.ret.index # <<>> /\ last.args.sides >= 3) =>
     \A k \in DOMAIN last.ret.index[1] :
        /\ last.ret.index[1][k] >= 0
        /\ last.ret.index[1][k] < last.ret.vertices

(* C19: every primitive generator returns parallel sequences: for every
   valid input, vertices, uvs and normals have the same length. *)
C19_ParallelSequences ==
  Generated =>
     /\ last.ret.uvs = last.ret.vertices
     /\ last.ret.normals = last.ret.vertices

(* C20: every primitive generator that takes a sides count (regPolygon,
   torus2d, cylinder, tube, cone, sphere, hemisphere) throws and returns no
   shape when sides < 3, sides = 2 included. *)
C20_FewSidesRejected ==
  ("name" \in DOMAIN last.args /\ last.args.name \notin {"template", "rect", "cube"}
     /\ last.args.sides < 3) =>
     last.err # ""

----------------------------------------------------------------------------
(* The references of a face line are its non-empty parts *)
FaceReferences(face) == SelectSeq(face, LAMBDA k : k # 0)

Triangulated(refs) ==
  IF Len(refs) = 4
  THEN <<refs[1], refs[2], refs[3], refs[3], refs[4], refs[1]>>
  ELSE refs

ExpectedReferences(faces) ==
  Flatten([i \in DOMAIN faces |-> Triangulated(FaceReferences(faces[i]))])

\* C21: loadObj appends, face line by face line, the entries of v1 v2 v3 of
\* a line with three references and the entries of (v1, v2, v3), (v3, v4, v1)
\* of a line with four; vertices, uvs and normals get the same length; a
\* line with fewer than 3 or more than 4 references makes the call fail.
C21_ObjTriangulation ==
  last.op = "ModelLoader.loadObj" =>
    LET faces == last.args.faces
        expected == ExpectedReferences(faces)
    IN  IF \E i \in DOMAIN faces : Len(FaceReferences(faces[i])) \notin {3, 4}
        THEN last.err # ""
        ELSE /\ last.err = ""
             /\ last.ret.vertices =
                  [i \in DOMAIN expected |-> SampleVertex(expected[i])]
             /\ last.ret.uvs =
                  [i \in DOMAIN expected |-> SampleUv(expected[i])]
             /\ last.ret.normals =
                  [i \in DOMAIN expected |-> SampleNormal(expected[i])]

----------------------------------------------------------------------------
\* C22: for every matrix M of bounded integer entries,
\* multiply(identity, M) is M and multiply(M, identity) is M.
C22_IdentityIsNeutral ==
  last.op = "Mat4.multiply" =>
     /\ last.args.a = Mat4identity => last.ret = last.args.b
     /\ last.args.b = Mat4identity => last.ret = last.args.a

C22_Witness ==
  /\ last.op = "Mat4.multiply"
  /\ last.args.a = Mat4identity
  /\ last.args.b = [Sequential EXCEPT ![2] = 0 - MaxEntry]
  /\ last.ret[2] = 0 - MaxEntry
  /\ last.ret[5] = 5

----------------------------------------------------------------------------
\* C23: in every pipeline the buffer created for the custom uniform at
\* position i of the list is bound, in bind group 1, at the binding number
\* that uniform's bindSlot gives (the number its layout entry declares), also
\* when bindSlot is not the position.
C23_BoundAtBindSlot ==
  \A p \in DOMAIN pipelines :
     \A i \in DOMAIN pipelines[p].bindGroup1.entries :
        \E d \in DOMAIN pipelines[p].bindGroup1.base :
           /\ pipelines[p].bindGroup1.base[d].buffer =
                 pipelines[p].bindGroup1.entries[i]
           /\ pipelines[p].bindGroup1.base[d].binding =
                 pipelines[p].pipe.layout1[i].binding

----------------------------------------------------------------------------
\* the value of custom uniform i a draw call of obj reads: the start of the
\* buffer, or the dynamic offset render binds for the object
SeenUniform(g, pipeline, obj, i) ==
  LET data == g[pipeline.bindGroup1.entries[i]].data
      first == IF pipeline.bindGroup1.dynRef[i]
               THEN BindOffset(obj) \div MatBytes ELSE 0
  IN  IF first + 1 \in DOMAIN data THEN data[first + 1] ELSE [k |-> "none"]

\* C24: a visible updateObject call leaves custom uniform buffer i unchanged
\* when entry i of uniformData is null or absent; writes a non-null entry of
\* a non-dynamic uniform at offset 0, where every object of the pipeline
\* reads it; writes a non-null entry of a dynamic uniform at
\* stride * slotIndex, where the object reads it, and changes the value no
\* other object reads.
C24_UniformStep ==
  (last'.op = "updateObject" /\ last'.err = "" /\ last'.args.visible # <<FALSE>>) =>
     LET a == last'.args
         before == pipelines[a.pipelineId + 1]
         pipeline == pipelines'[a.pipelineId + 1]
         own == pipeline.objects[a.objectId + 1]
     IN  \A i \in DOMAIN pipeline.bindGroup1.entries :
            LET buffer == pipeline.bindGroup1.entries[i]
                dynamic == pipeline.bindGroup1.dynRef[i]
                value == [k |-> "data", v |-> a.uniformData[i]]
            IN  IF i > Len(a.uniformData) \/ a.uniformData[i] = 0
                THEN gpu'[buffer] = gpu[buffer]
                ELSE /\ \E w \in DOMAIN last'.writes :
                           /\ last'.writes[w].buffer = buffer
                           /\ last'.writes[w].offset =
                                 IF dynamic THEN BindOffset(own) ELSE 0
                     /\ SeenUniform(gpu', pipeline, own, i) = value
                     /\ \A o \in DOMAIN pipeline.objects :
                           o # a.objectId + 1 =>
                              SeenUniform(gpu', pipeline, pipeline.objects[o], i) =
                                 IF dynamic
                                 THEN SeenUniform(gpu, before, before.objects[o], i)
                                 ELSE value

C24_SharedOrPerObject == [][C24_UniformStep]_vars

----------------------------------------------------------------------------
\* C25: render does not fail on unknown handles: it issues one pass; an id
\* of pipelineIds that is not registered gets a warning and no draw call
\* while the pipelines listed with it are drawn in list order; a targetId
\* that is not a registered texture gets a warning and the pass resolves to
\* the canvas; a registered targetId makes the pass resolve to that texture.
C25_UnknownHandlesTolerated ==
  last.op = "render" =>
     LET ids == last.args.pipelineIds
         target == last.args.targetId
         unknown == SelectSeq(ids, LAMBDA id : id + 1 \notin DOMAIN pipelines)
         noTarget == target # <<>> /\ target[1] + 1 \notin DOMAIN textures
         draws == last.passes[1].draws
     IN  /\ last.err = ""
         /\ Len(last.passes) = 1
         /\ [i \in DOMAIN draws |-> <<draws[i].pipeline, draws[i].slot>>]
              = ExpectedDraws(ids)
         /\ Len(SelectSeq(last.warns, LAMBDA w : w = "Pipeline not found"))
              = Len(unknown)
         /\ Len(SelectSeq(last.warns, LAMBDA w : w = "Could not find render target"))
              = IF noTarget THEN 1 ELSE 0
         /\ last.passes[1].resolveTarget =
              IF target = <<>> \/ noTarget THEN NoHandle
              ELSE textures[target[1] + 1]

C25_Witness ==
  /\ last.op = "render"
  /\ last.args.pipelineIds = <<MaxPipelines, 0, 0>>
  /\ last.args.targetId = <<MaxTextures>>
  /\ Len(textures) = MaxTextures
  /\ Len(pipelines) >= 1
  /\ Len(last.passes[1].draws) >= 2
  /\ Len(last.warns) = 2
  /\ last.passes[1].resolveTarget = NoHandle

----------------------------------------------------------------------------
\* C26: loadGltfMesh fails with "tried to access non-existant buffer"
\* whenever the buffer view of an accessor it reads (position, uv, normal,
\* index) names a buffer index that is not an index of the buffer list, the
\* index equal to the number of buffers included.
C26_MissingBufferReported ==
  (/\ last.op = "ModelLoader.loadGltfMesh"
   /\ last.args.indices
   /\ \E i \in 1..4 : /\ last.args.types[i] = ExpectedTypes[i]
                      /\ last.args.viewBuffer[i] >= last.args.buffers)
     => last.err = "tried to access non-existant buffer"

----------------------------------------------------------------------------
\* C27: the id an addTexture call returns is the index at which the texture
\* of that call is stored in the texture list, for every interleaving of
\* addTexture calls in flight at the same time, with or without an image
\* url (so that no two calls return the same id).
C27_AddTextureStep ==
  (last'.op = "addTexture" /\ last'.err = "" /\ Len(textures') = Len(textures) + 1) =>
     /\ last'.ret + 1 \in DOMAIN textures'
     /\ textures'[last'.ret + 1] = textures'[Len(textures')]

C27_IdIsOwnIndex == [][C27_AddTextureStep]_vars

\* C28: updateTexture(textureId, url) copies the image into the texture
\* registered under textureId at the moment the copy is issued, and never
\* into a destroyed texture, whatever updateTextureSize or destroy call ran
\* while the fetch was pending.
C28_CopyStep ==
  (last'.op = "updateTexture" /\ last'.err = "" /\ last'.writes # <<>>
     /\ Len(pending') < Len(pending)) =>
     LET target == last'.writes[1].texture
     IN  /\ ~gpu[target].destroyed
         /\ At(textures, last'.args.textureId) = <<target>>

C28_CopyTargetsLiveTexture == [][C28_CopyStep]_vars

----------------------------------------------------------------------------
\* C29: visibility is not sticky.  An updateObject call that omits visible
\* leaves the object visible, also when an earlier call hid it; a call that
\* passes visible leaves that value; no other call changes the flag of an
\* object, and a new object is visible.  So an object is left out of a
\* render only if the most recent updateObject call on it passed
\* visible=false.
C29_VisibilityStep ==
  LET updated == IF last'.op = "updateObject" /\ last'.err = ""
                 THEN {<<last'.args.pipelineId + 1, last'.args.objectId + 1>>}
                 ELSE {}
      shown(pls, key) == pls[key[1]].objects[key[2]].visible
  IN  /\ \A key \in updated :
            shown(pipelines', key) = (last'.args.visible # <<FALSE>>)
      /\ \A key \in ObjectKeys(pipelines') \ updated :
            IF key \in ObjectKeys(pipelines)
            THEN shown(pipelines', key) = shown(pipelines, key)
            ELSE shown(pipelines', key)
      /\ last'.op = "render" =>
            \A key \in ObjectKeys(pipelines') :
               \A id \in Range(last'.args.pipelineIds) :
                  id + 1 = key[1] =>
                     shown(pipelines', key) =
                        \E d \in DOMAIN last'.passes[1].draws :
                           /\ last'.passes[1].draws[d].pipeline = id
                           /\ last'.passes[1].draws[d].slot = key[2] - 1

C29_VisibilityNotSticky == [][C29_VisibilityStep]_vars

C29_Witness ==
  /\ last.op = "updateObject"
  /\ last.err = ""
  /\ last.args.visible = <<>>
  /\ ~last.args.wasVisible
  /\ pipelines[last.args.pipelineId + 1].objects[last.args.objectId + 1].visible

----------------------------------------------------------------------------
\* component i of a vector, a missing component counting as 0
ComponentOrZero(v, i) == IF i \in DOMAIN v THEN v[i] ELSE 0

\* C30: for all vectors v1, v2 of 2 to 4 bounded integer components,
\* Vec.add(v1, v2) is the component-wise sum, of the length of the longer
\* vector, a missing component counting as 0, and Vec.subtract(v1, v2) is the
\* component-wise difference in the same way.
C30_ComponentWise ==
  LET v1 == last.args.v1
      v2 == last.args.v2
      size == IF Len(v1) > Len(v2) THEN Len(v1) ELSE Len(v2)
  IN  /\ last.op = "Vec.add" =>
            last.ret = [i \in 1..size |->
                          ComponentOrZero(v1, i) + ComponentOrZero(v2, i)]
      /\ last.op = "Vec.subtract" =>
            last.ret = [i \in 1..size |->
                          ComponentOrZero(v1, i) - ComponentOrZero(v2, i)]

====
